---- MODULE Spec2Model ----
(***************************************************************************)
(* goreach: the cross-build merge engine (package merge), the coverage     *)
(* analysis (package analysis) and the grouping of coverage directories    *)
(* (package covparse), over the report tree of package report.             *)
(*                                                                         *)
(* A report is a record tree  report -> packages -> files -> functions.    *)
(* A Go slice of unreached blocks is modelled by the address of its        *)
(* backing array in `heap` (Nil for a nil slice), so that two function     *)
(* records holding the same address share storage.  A coverage percentage  *)
(* (float64 in the source) is the exact rational <<numerator, denominator>>*)
(* in lowest terms.                                                        *)
(***************************************************************************)
EXTENDS Integers, Sequences, FiniteSets, TLC

VARIABLES
    reports,    \* the argument list of the pending / last Merge call
    heap,       \* backing arrays of the []UnreachedBlock slices
    result,     \* the *report.Report returned by the last Merge call
    err,        \* TRUE iff the last Merge or groupByMetaHash call returned
                \* an error
    before,     \* contents of the arguments when Merge was called
    pc,         \* "start": Merge is about to be called; "returned": it has
                \* returned; "written": the caller then wrote to the result
    calls,      \* number of Merge calls made so far
    clock,      \* the reading time.Now() gives next
    profile,    \* the *cover.Profile given to analyzeFile
    funcs,      \* the []*astmap.FuncExtent given to analyzeFile
    opts,       \* the analysis.Options of the pending / last call
    overlaps,   \* what blockOverlapsFunc returned
    fileReport, \* what analyzeFile returned
    profiles,   \* the []*cover.Profile given to analysis.Run
    goList,     \* what `go list -json` answers: exit status and directories
    unparsable, \* the source files astmap.FileFuncs fails on
    runReport,  \* the report analysis.Run returned
    runErr,     \* TRUE iff analysis.Run returned an error
    runPrev,    \* what Run returned for the same profiles in another order
    dirs,       \* the directories given to groupByMetaHash
    metaHashes, \* the covmeta hash suffixes found in each directory
    groups,     \* what groupByMetaHash returned
    modTimes,   \* the modification time of each directory's counter file
    buildGroups,\* what ParseDirRecursiveGrouped returned
    instrumented, \* the binary was built with coverage instrumentation
    enabled,    \* flush: the package variable `enabled`
    state,      \* flush: the package variable `state` (0 for nil)
    states,     \* flush: the flushState objects made so far
    threads,    \* flush: the callers of the package's functions and the
                \* goroutines Enable and HandleSignal started
    covCounters,\* the statements counted since the counters were cleared
    storage,    \* what Storage.Store has been given
    log         \* flush: what has happened so far, for the properties

mergeVars == <<reports, heap, result, err, before, calls, clock>>
fileVars  == <<profile, funcs, overlaps, fileReport>>
runVars   == <<profiles, goList, unparsable, runReport, runErr, runPrev>>
groupVars == <<dirs, metaHashes, groups>>
buildVars == <<modTimes, buildGroups>>
flushVars == <<instrumented, enabled, state, states, threads,
               covCounters, storage, log>>
otherVars == <<buildVars, flushVars>>

vars == <<mergeVars, fileVars, runVars, groupVars, otherVars, opts, pc>>

----------------------------------------------------------------------------
(* Bounds of the model. *)

MaxReports == 2     \* longest argument list of Merge
MaxFuncs   == 5     \* functions of the analysed code base
MaxCov     == 1     \* most covered statements per function in an input
MaxCalls   == 2     \* Merge calls in one run (the result is fed back)

Nil == <<>>         \* the nil slice / the nil *Report

\* the variables of the operations a run does not exercise keep these values
MergeIdle ==
    /\ reports = Nil /\ heap = Nil /\ result = Nil /\ err = FALSE
    /\ before = Nil /\ calls = 0 /\ clock = 0
FileIdle ==
    /\ profile = Nil /\ funcs = Nil /\ overlaps = FALSE /\ fileReport = Nil
RunIdle ==
    /\ profiles = Nil /\ goList = Nil /\ unparsable = {}
    /\ runReport = Nil /\ runErr = FALSE /\ runPrev = Nil
GroupIdle ==
    /\ dirs = Nil /\ metaHashes = Nil /\ groups = Nil
BuildIdle ==
    /\ modTimes = Nil /\ buildGroups = Nil
FlushIdle ==
    /\ instrumented = FALSE /\ enabled = FALSE /\ state = 0
    /\ states = Nil /\ threads = Nil
    /\ covCounters = 0 /\ storage = Nil /\ log = Nil
OtherIdle == BuildIdle /\ FlushIdle

----------------------------------------------------------------------------
(* package report *)

RECURSIVE GCD(_, _)
GCD(a, b) == IF b = 0 THEN a ELSE GCD(b, a % b)

\* float64(covered) / float64(total) * 100, and 0 when total is 0
ComputePercent(covered, total) ==
    IF total = 0 THEN <<0, 1>>
    ELSE LET g == GCD(100 * covered, total)
         IN  <<(100 * covered) \div g, total \div g>>

\* a > b on coverage percentages
PercentGreater(a, b) == a[1] * b[2] > b[1] * a[2]

CoverageStats(total, covered, percent) ==
    [totalStatements |-> total, coveredStatements |-> covered,
     coveragePercent |-> percent]

FuncReport(name, line, total, covered, percent, blocks) ==
    [name |-> name, line |-> line, totalStatements |-> total,
     coveredStatements |-> covered, coveragePercent |-> percent,
     unreachedBlocks |-> blocks]

UnreachedBlock(startLine, startCol, endLine, endCol, numStatements) ==
    [startLine |-> startLine, startCol |-> startCol, endLine |-> endLine,
     endCol |-> endCol, numStatements |-> numStatements]

----------------------------------------------------------------------------
(* Generic helpers on sequences and on the report tree. *)

RECURSIVE SumSeq(_)
SumSeq(s) == IF s = <<>> THEN 0 ELSE Head(s) + SumSeq(Tail(s))

RECURSIVE Flatten(_)
Flatten(ss) == IF ss = <<>> THEN <<>> ELSE Head(ss) \o Flatten(Tail(ss))

Range(s) == {s[i] : i \in DOMAIN s}

\* the sequence f, with its elements computed once
AsSeq(f) == <<>> \o f

\* the positions <<i, j, k>> of the functions of a report
Positions(r) ==
    UNION {UNION {{<<i, j, k>> : k \in DOMAIN r.packages[i].files[j].functions}
                  : j \in DOMAIN r.packages[i].files}
           : i \in DOMAIN r.packages}

FileAt(r, p) == r.packages[p[1]].files[p[2]]
FuncAt(r, p) == r.packages[p[1]].files[p[2]].functions[p[3]]

\* the elements of a []UnreachedBlock slice
Blocks(h, slice) == IF slice = Nil THEN <<>> ELSE h[slice]

----------------------------------------------------------------------------
(* package merge *)

\* funcKey uniquely identifies a function across builds
funcKey(fileName, funcName) == <<fileName, funcName>>

\* the funcEntry Merge stores for fn; the slice is stored, not its elements
funcEntry(fn) ==
    [coveragePercent   |-> fn.coveragePercent,
     coveredStatements |-> fn.coveredStatements,
     totalStatements   |-> fn.totalStatements,
     unreachedBlocks   |-> fn.unreachedBlocks,
     line              |-> fn.line]

\* the functions of report r with their keys, in the order of the loops
\* over r.Packages, pkg.Files and file.Functions
entriesOf(r) ==
    Flatten(AsSeq([i \in DOMAIN r.packages |->
        Flatten(AsSeq([j \in DOMAIN r.packages[i].files |->
            AsSeq([k \in DOMAIN r.packages[i].files[j].functions |->
                [key |-> funcKey(r.packages[i].files[j].fileName,
                                 r.packages[i].files[j].functions[k].name),
                 fn  |-> r.packages[i].files[j].functions[k]]])]))]))

\* a plausible slip: the comparison of the times is turned around
Before(t, u) == t < u

\* t.After(u) of package time
After(t, u) == t > u

\* a plausible slip: the first report is the base
selectFirst(rs, i, base) == base

\* the index of the structural base: base, unless a report of rs[i..] is
\* After it
RECURSIVE selectBase(_, _, _)
selectBase(rs, i, base) ==
    IF i > Len(rs) THEN base
    ELSE selectBase(rs, i + 1,
                    IF After(rs[i].generatedAt, rs[base].generatedAt)
                    THEN i ELSE base)

\* a plausible slip: every entry replaces the one seen before it
replacesAlways(lookup, key, fn) == TRUE

\* a plausible slip: an entry that ties with the one held replaces it
replacesOnTie(lookup, key, fn) ==
    \/ key \notin DOMAIN lookup
    \/ ~PercentGreater(lookup[key].coveragePercent, fn.coveragePercent)

\* whether entry fn replaces what lookup holds under key
replaces(lookup, key, fn) ==
    \/ key \notin DOMAIN lookup
    \/ PercentGreater(fn.coveragePercent, lookup[key].coveragePercent)

\* the lookup of max coverage per function after entries es[i..] are seen
RECURSIVE buildLookup(_, _, _)
buildLookup(es, i, lookup) ==
    IF i > Len(es) THEN lookup
    ELSE buildLookup(es, i + 1,
            IF replaces(lookup, es[i].key, es[i].fn)
            THEN [x \in DOMAIN lookup \cup {es[i].key} |->
                     IF x = es[i].key THEN funcEntry(es[i].fn) ELSE lookup[x]]
            ELSE lookup)

\* the function Merge writes to the output for the base's function fn
mergedFunc(lookup, fileName, fn) ==
    LET key == funcKey(fileName, fn.name) IN
    IF key \in DOMAIN lookup
    THEN FuncReport(fn.name, lookup[key].line, lookup[key].totalStatements,
                    lookup[key].coveredStatements, lookup[key].coveragePercent,
                    lookup[key].unreachedBlocks)
    ELSE fn

\* recomputeStats, for one file, for one package and for the report
recomputeFile(file) ==
    LET fileTotal   == SumSeq(AsSeq([k \in DOMAIN file.functions |->
                                  file.functions[k].totalStatements]))
        fileCovered == SumSeq(AsSeq([k \in DOMAIN file.functions |->
                                  file.functions[k].coveredStatements]))
    IN  [file EXCEPT !.total = CoverageStats(fileTotal, fileCovered,
                                    ComputePercent(fileCovered, fileTotal))]

\* a plausible slip: the package totals are assigned, not added up, so
\* that they are those of the last file
recomputePackageLastFile(pkg) ==
    LET files == AsSeq([j \in DOMAIN pkg.files |-> recomputeFile(pkg.files[j])])
    IN  [pkg EXCEPT !.files = files,
                    !.total = IF files = <<>> THEN CoverageStats(0, 0, <<0, 1>>)
                              ELSE files[Len(files)].total]

recomputePackage(pkg) ==
    LET files      == AsSeq([j \in DOMAIN pkg.files |-> recomputeFile(pkg.files[j])])
        pkgTotal   == SumSeq(AsSeq([j \in DOMAIN files |->
                                       files[j].total.totalStatements]))
        pkgCovered == SumSeq(AsSeq([j \in DOMAIN files |->
                                       files[j].total.coveredStatements]))
    IN  [pkg EXCEPT !.files = files,
                    !.total = CoverageStats(pkgTotal, pkgCovered,
                                  ComputePercent(pkgCovered, pkgTotal))]

recomputeStats(r) ==
    LET pkgs          == AsSeq([i \in DOMAIN r.packages |->
                                   recomputePackage(r.packages[i])])
        reportTotal   == SumSeq(AsSeq([i \in DOMAIN pkgs |->
                                          pkgs[i].total.totalStatements]))
        reportCovered == SumSeq(AsSeq([i \in DOMAIN pkgs |->
                                          pkgs[i].total.coveredStatements]))
    IN  [r EXCEPT !.packages = pkgs,
                  !.total = CoverageStats(reportTotal, reportCovered,
                                ComputePercent(reportCovered, reportTotal))]

\* the address of the slice deepCopy makes, in call number call, for the
\* function at position p
copyAddr(call, p) == <<0 - call, p[1], p[2], p[3]>>

\* a plausible slip: the copy leaves the unreached blocks out
copiedFuncNoBlocks(h, call, p, fn) ==
    FuncReport(fn.name, fn.line, fn.totalStatements, fn.coveredStatements,
               fn.coveragePercent, Nil)

\* the function deepCopy writes at position p for the source's function fn
copiedFunc(h, call, p, fn) ==
    FuncReport(fn.name, fn.line, fn.totalStatements, fn.coveredStatements,
               fn.coveragePercent,
               IF Len(Blocks(h, fn.unreachedBlocks)) > 0
               THEN copyAddr(call, p) ELSE Nil)

\* deepCopy: the copy, and the backing arrays it allocates
deepCopy(src, h, call) ==
    [report |->
        [src EXCEPT !.packages =
            AsSeq([i \in DOMAIN src.packages |->
                [src.packages[i] EXCEPT !.files =
                    AsSeq([j \in DOMAIN src.packages[i].files |->
                        [src.packages[i].files[j] EXCEPT !.functions =
                            AsSeq([k \in DOMAIN src.packages[i].files[j].functions |->
                                copiedFunc(h, call, <<i, j, k>>,
                                    src.packages[i].files[j].functions[k])])]])]])],
     alloc |->
        [a \in {copyAddr(call, p) : p \in
                    {q \in Positions(src) :
                        Len(Blocks(h, FuncAt(src, q).unreachedBlocks)) > 0}} |->
            h[FuncAt(src, <<a[2], a[3], a[4]>>).unreachedBlocks]]]

\* the report of the multi-report case, before recomputeStats
mergedTree(base, lookup, now) ==
    [version     |-> base.version,
     generatedAt |-> now,
     mode        |-> "merged",
     total       |-> CoverageStats(0, 0, <<0, 1>>),
     packages    |->
        AsSeq([i \in DOMAIN base.packages |->
            [importPath |-> base.packages[i].importPath,
             total      |-> CoverageStats(0, 0, <<0, 1>>),
             files      |->
                AsSeq([j \in DOMAIN base.packages[i].files |->
                    [fileName  |-> base.packages[i].files[j].fileName,
                     total     |-> CoverageStats(0, 0, <<0, 1>>),
                     functions |->
                        AsSeq([k \in DOMAIN base.packages[i].files[j].functions |->
                            mergedFunc(lookup, base.packages[i].files[j].fileName,
                                base.packages[i].files[j].functions[k])])]])]])]

\* the single-report case of Merge
mergeSingle(rs, h, now, call) ==
    LET c == deepCopy(rs[1], h, call)
    IN  [report |-> [c.report EXCEPT !.generatedAt = now, !.mode = "merged"],
         err    |-> FALSE,
         alloc  |-> c.alloc]

\* the multi-report case of Merge
mergeMulti(rs, now) ==
    LET base   == rs[selectBase(rs, 2, 1)]
        lookup == buildLookup(Flatten(AsSeq([r \in DOMAIN rs |-> entriesOf(rs[r])])),
                              1, <<>>)
    IN  [report |-> recomputeStats(mergedTree(base, lookup, now)),
         err    |-> FALSE,
         alloc  |-> <<>>]

\* a plausible slip: the guard against an empty list is off by one
MergeOffByOne(rs, h, now, call) ==
    IF Len(rs) <= 1
    THEN [report |-> Nil, err |-> TRUE, alloc |-> <<>>]
    ELSE mergeMulti(rs, now)

\* Merge(reports) called at time now as call number call, on heap h:
\* the report and error it returns and the backing arrays it allocates
Merge(rs, h, now, call) ==
    IF Len(rs) = 0
    THEN [report |-> Nil, err |-> TRUE, alloc |-> <<>>]
    ELSE IF Len(rs) = 1
    THEN mergeSingle(rs, h, now, call)
    ELSE mergeMulti(rs, now)

----------------------------------------------------------------------------
(* The reports Merge is given.  They are what `analyze` produces for a     *)
(* code base of MaxFuncs functions: analysis.Run (full analysis, mode      *)
(* "set") or reportFromFuncCoverage (percentages only, mode                *)
(* "covdata-func"), for the whole code base or for a build that lacks some *)
(* of its functions.                                                       *)

SlotPkg(k)  == IF k <= 4 THEN "p" ELSE "q"
SlotFile(k) == IF k <= 2 THEN "p/a.go" ELSE IF k <= 4 THEN "p/b.go" ELSE "q/c.go"
SlotName(k) == IF k \in {1, 5} THEN "Foo" ELSE IF k \in {3, 4} THEN "init" ELSE "Bar"
SlotStmts(k) == 1 + (k % 2)

Shapes == {"full", "partial"}
InShape(shape, k) == shape = "full" \/ k % 3 = 2

RECURSIVE SortedSeq(_)
SortedSeq(S) ==
    IF S = {} THEN <<>>
    ELSE LET m == CHOOSE x \in S : \A y \in S : x <= y
         IN  <<m>> \o SortedSeq(S \ {m})

RECURSIVE Distinct(_)
Distinct(s) ==
    IF s = <<>> THEN <<>>
    ELSE LET d == Distinct(SubSeq(s, 1, Len(s) - 1))
         IN  IF s[Len(s)] \in Range(d) THEN d ELSE Append(d, s[Len(s)])

Min(a, b) == IF a <= b THEN a ELSE b

\* a build and coverage run: which analysis, which functions, how many
\* statements of each function were covered, when it was generated
Profiles ==
    [kind : {"set"}, shape : Shapes, cov : 0..MaxCov, at : 1..MaxReports]
    \cup [kind : {"covdata-func"}, shape : Shapes, cov : 1..MaxCov,
          at : 1..MaxReports]

\* the blocks analyzeFile appends for the function in slot k
analysedBlocks(prof, k) ==
    AsSeq([n \in 1..(SlotStmts(k) - Min(prof.cov, SlotStmts(k))) |->
        UnreachedBlock(10 * k + prof.at + n, 1, 10 * k + prof.at + n, 9, 1)])

\* analyzeFile's record of the function in slot k
analysedFunc(prof, k) ==
    LET total   == SlotStmts(k)
        covered == Min(prof.cov, total)
    IN  FuncReport(SlotName(k), 10 * k + prof.at, total, covered,
                   ComputePercent(covered, total), analysedBlocks(prof, k))

\* reportFromFuncCoverage's record of the function in slot k
percentOnlyFunc(prof, k) ==
    FuncReport(SlotName(k), 0, 0, 0, ComputePercent(prof.cov, MaxCov), <<>>)

\* analyzeFile's totals: every function of the file with statements counts,
\* listed or not
analysedFileTotal(prof, file) ==
    LET all     == SortedSeq({k \in 1..MaxFuncs : SlotFile(k) = file})
        total   == SumSeq(AsSeq([n \in DOMAIN all |-> SlotStmts(all[n])]))
        covered == SumSeq(AsSeq([n \in DOMAIN all |->
                                    Min(prof.cov, SlotStmts(all[n]))]))
    IN  CoverageStats(total, covered, ComputePercent(covered, total))

\* the totals of a package or report: the sums of its children's totals
sumTotals(children) ==
    LET total   == SumSeq(AsSeq([n \in DOMAIN children |->
                                    children[n].total.totalStatements]))
        covered == SumSeq(AsSeq([n \in DOMAIN children |->
                                    children[n].total.coveredStatements]))
    IN  CoverageStats(total, covered, ComputePercent(covered, total))

\* the file report of `file` in the report made from profile prof
inputFile(prof, file) ==
    LET ks == SortedSeq({k \in 1..MaxFuncs :
                            InShape(prof.shape, k) /\ SlotFile(k) = file})
    IN  [fileName  |-> file,
         total     |-> IF prof.kind = "set" THEN analysedFileTotal(prof, file)
                       ELSE CoverageStats(0, 0, <<0, 1>>),
         functions |-> AsSeq([n \in DOMAIN ks |->
                                 IF prof.kind = "set" THEN analysedFunc(prof, ks[n])
                                 ELSE percentOnlyFunc(prof, ks[n])])]

\* the package report of pkg in the report made from profile prof
inputPackage(prof, pkg) ==
    LET ks    == SortedSeq({k \in 1..MaxFuncs :
                               InShape(prof.shape, k) /\ SlotPkg(k) = pkg})
        names == Distinct(AsSeq([n \in DOMAIN ks |-> SlotFile(ks[n])]))
        files == AsSeq([j \in DOMAIN names |-> inputFile(prof, names[j])])
    IN  [importPath |-> pkg,
         total      |-> IF prof.kind = "set" THEN sumTotals(files)
                        ELSE CoverageStats(0, 0, <<0, 1>>),
         files      |-> files]

\* the report made from profile prof, every slice given by its elements
inputContents(prof) ==
    LET ks    == SortedSeq({k \in 1..MaxFuncs : InShape(prof.shape, k)})
        names == Distinct(AsSeq([n \in DOMAIN ks |-> SlotPkg(ks[n])]))
        pkgs  == AsSeq([i \in DOMAIN names |-> inputPackage(prof, names[i])])
    IN  [version |-> 1, generatedAt |-> prof.at, mode |-> prof.kind,
         total |-> IF prof.kind = "set" THEN sumTotals(pkgs)
                   ELSE CoverageStats(0, 0, <<0, 1>>),
         packages |-> pkgs]

\* the address of the slice of the function at position p of argument r
inputAddr(r, p) == <<r, p[1], p[2], p[3]>>

\* the r-th argument of Merge as decoded into memory: every non-empty
\* slice has a backing array of its own
inputReport(r, c) ==
    [c EXCEPT !.packages =
        AsSeq([i \in DOMAIN c.packages |->
            [c.packages[i] EXCEPT !.files =
                AsSeq([j \in DOMAIN c.packages[i].files |->
                    [c.packages[i].files[j] EXCEPT !.functions =
                        AsSeq([k \in DOMAIN c.packages[i].files[j].functions |->
                            [c.packages[i].files[j].functions[k] EXCEPT
                                !.unreachedBlocks =
                                    IF @ = <<>> THEN Nil
                                    ELSE inputAddr(r, <<i, j, k>>)]])]])]])]

\* the backing arrays of the r-th argument
inputBlocks(r, c) ==
    [a \in {inputAddr(r, p) : p \in
               {q \in Positions(c) : FuncAt(c, q).unreachedBlocks # <<>>}} |->
        FuncAt(c, <<a[2], a[3], a[4]>>).unreachedBlocks]

\* a report with every slice replaced by its elements
contentsOf(r, h) ==
    [r EXCEPT !.packages =
        AsSeq([i \in DOMAIN r.packages |->
            [r.packages[i] EXCEPT !.files =
                AsSeq([j \in DOMAIN r.packages[i].files |->
                    [r.packages[i].files[j] EXCEPT !.functions =
                        AsSeq([k \in DOMAIN r.packages[i].files[j].functions |->
                            [r.packages[i].files[j].functions[k] EXCEPT
                                !.unreachedBlocks = Blocks(h, @)]])]])]])]

----------------------------------------------------------------------------
(* The state machine: a caller builds the argument list, calls Merge, and  *)
(* then writes to the returned report or feeds it back to Merge.           *)

\* the heap holding the backing arrays of all the arguments cs[1..n]
RECURSIVE inputHeap(_, _)
inputHeap(cs, n) ==
    IF n = 0 THEN <<>> ELSE inputBlocks(n, cs[n]) @@ inputHeap(cs, n - 1)

MergeInit ==
    \E n \in 0..MaxReports : \E profs \in [1..n -> Profiles] :
      LET cs == AsSeq([r \in 1..n |-> inputContents(profs[r])]) IN
        /\ reports = AsSeq([r \in 1..n |-> inputReport(r, cs[r])])
        /\ heap = inputHeap(cs, n)
        /\ result = Nil
        /\ err = FALSE
        /\ before = <<>>
        /\ pc = "start"
        /\ calls = 0
        /\ clock = MaxReports + 1
        /\ FileIdle /\ RunIdle /\ GroupIdle /\ opts = Nil /\ OtherIdle

\* merged, err := merge.Merge(reports)
CallMerge ==
    /\ pc = "start"
    /\ LET m == Merge(reports, heap, clock, calls + 1) IN
        /\ result' = m.report
        /\ err' = m.err
        /\ heap' = m.alloc @@ heap
    /\ before' = AsSeq([r \in DOMAIN reports |-> contentsOf(reports[r], heap)])
    /\ calls' = calls + 1
    /\ clock' = clock + 1
    /\ pc' = "returned"
    /\ UNCHANGED reports
    /\ UNCHANGED <<fileVars, runVars, groupVars, opts>>
    /\ UNCHANGED otherVars

\* the caller overwrites one element of a function's unreachedBlocks in
\* the returned report
WriteBlock ==
    /\ pc = "returned"
    /\ ~err
    /\ \E p \in Positions(result) :
          /\ FuncAt(result, p).unreachedBlocks # Nil
          /\ \E n \in DOMAIN heap[FuncAt(result, p).unreachedBlocks] :
                heap' = [heap EXCEPT ![FuncAt(result, p).unreachedBlocks][n] =
                            UnreachedBlock(0, 0, 0, 0, 0)]
    /\ pc' = "written"
    /\ UNCHANGED <<reports, result, err, before, calls, clock>>
    /\ UNCHANGED <<fileVars, runVars, groupVars, opts>>
    /\ UNCHANGED otherVars

\* the caller overwrites one element of a function list of the returned
\* report
WriteFunc ==
    /\ pc = "returned"
    /\ ~err
    /\ \E p \in Positions(result) :
          result' = [result EXCEPT
                        !.packages[p[1]].files[p[2]].functions[p[3]] =
                            FuncReport("", 0, 0, 0, <<0, 1>>, Nil)]
    /\ pc' = "written"
    /\ UNCHANGED <<reports, heap, err, before, calls, clock>>
    /\ UNCHANGED <<fileVars, runVars, groupVars, opts>>
    /\ UNCHANGED otherVars

\* the caller merges the returned report again, as a one-element list
Resubmit ==
    /\ pc = "returned"
    /\ ~err
    /\ calls < MaxCalls
    /\ reports' = <<result>>
    /\ result' = Nil
    /\ before' = <<>>
    /\ pc' = "start"
    /\ UNCHANGED <<heap, err, calls, clock>>
    /\ UNCHANGED <<fileVars, runVars, groupVars, opts>>
    /\ UNCHANGED otherVars

MergeNext == CallMerge \/ WriteBlock \/ WriteFunc \/ Resubmit

SpecMerge == MergeInit /\ [][MergeNext]_vars

----------------------------------------------------------------------------
(* Vocabulary of the properties.  It is defined from the returned report   *)
(* and from `before`, the arguments as they were when Merge was called,    *)
(* and uses none of the operators of package merge.                        *)

\* the last Merge call returned a report, which nobody has touched since
Returned == pc = "returned" /\ ~err
SingleReport == Returned /\ Len(before) = 1
MultiReport  == Returned /\ Len(before) >= 2

\* the returned report, every slice given by its elements
Out == contentsOf(result, heap)

KeyAt(r, p) == <<FileAt(r, p).fileName, FuncAt(r, p).name>>

\* the entries <<r, p>> of the arguments that carry key
EntriesFor(key) ==
    {e \in UNION {{<<r, p>> : p \in Positions(before[r])} : r \in DOMAIN before} :
        KeyAt(before[e[1]], e[2]) = key}

EntryFunc(e) == FuncAt(before[e[1]], e[2])

\* e comes no later than f in the order report, package, file, function
EntryLeq(e, f) ==
    LET a == <<e[1]>> \o e[2]
        b == <<f[1]>> \o f[2]
    IN  \/ a = b
        \/ \E n \in 1..4 : a[n] < b[n] /\ \A m \in 1..(n - 1) : a[m] = b[m]

\* the entries for key whose coveragePercent no other entry exceeds
BestEntries(key) ==
    {e \in EntriesFor(key) :
        \A f \in EntriesFor(key) :
            ~PercentGreater(EntryFunc(f).coveragePercent,
                            EntryFunc(e).coveragePercent)}

\* the entry that wins the best-coverage comparison for key
Winner(key) ==
    CHOOSE e \in BestEntries(key) : \A f \in BestEntries(key) : EntryLeq(e, f)

\* the structural base: the first argument with the latest generatedAt
Newest ==
    CHOOSE b \in DOMAIN before :
        /\ \A r \in DOMAIN before : before[r].generatedAt <= before[b].generatedAt
        /\ \A r \in 1..(b - 1) : before[r].generatedAt < before[b].generatedAt

\* packages, files and function names of a report, in order
Structure(r) ==
    [i \in DOMAIN r.packages |->
        [importPath |-> r.packages[i].importPath,
         files |-> [j \in DOMAIN r.packages[i].files |->
            [fileName |-> r.packages[i].files[j].fileName,
             names |-> [k \in DOMAIN r.packages[i].files[j].functions |->
                           r.packages[i].files[j].functions[k].name]]]]]

\* the same, with every function's values
Functions(r) ==
    [i \in DOMAIN r.packages |->
        [importPath |-> r.packages[i].importPath,
         files |-> [j \in DOMAIN r.packages[i].files |->
            [fileName |-> r.packages[i].files[j].fileName,
             functions |-> r.packages[i].files[j].functions]]]]

\* round(total * percent / 100), halves away from zero
RoundedCovered(total, percent) ==
    (2 * total * percent[1] + 100 * percent[2]) \div (200 * percent[2])

\* total and covered statements of a node equal the sums over its children
SumsOf(node, totals, covereds) ==
    /\ node.total.totalStatements = SumSeq(totals)
    /\ node.total.coveredStatements = SumSeq(covereds)

\* percent is 100 * covered / total of the node's counts, 0 when total is 0
PercentOf(node) ==
    IF node.total.totalStatements = 0
    THEN node.total.coveragePercent = <<0, 1>>
    ELSE node.total.coveragePercent[1] * node.total.totalStatements
            = 100 * node.total.coveredStatements * node.total.coveragePercent[2]

\* the statement counts of every level of r are the sums of the level below
CountsAddUp(r) ==
    /\ SumsOf(r, [i \in DOMAIN r.packages |-> r.packages[i].total.totalStatements],
                 [i \in DOMAIN r.packages |-> r.packages[i].total.coveredStatements])
    /\ \A i \in DOMAIN r.packages :
        /\ SumsOf(r.packages[i],
                  [j \in DOMAIN r.packages[i].files |->
                      r.packages[i].files[j].total.totalStatements],
                  [j \in DOMAIN r.packages[i].files |->
                      r.packages[i].files[j].total.coveredStatements])
        /\ \A j \in DOMAIN r.packages[i].files :
              SumsOf(r.packages[i].files[j],
                  [k \in DOMAIN r.packages[i].files[j].functions |->
                      r.packages[i].files[j].functions[k].totalStatements],
                  [k \in DOMAIN r.packages[i].files[j].functions |->
                      r.packages[i].files[j].functions[k].coveredStatements])

PercentsDerived(r) ==
    /\ PercentOf(r)
    /\ \A i \in DOMAIN r.packages :
        /\ PercentOf(r.packages[i])
        /\ \A j \in DOMAIN r.packages[i].files : PercentOf(r.packages[i].files[j])

\* the latest_unreached_blocks of a function of the returned report; the
\* FuncReport of this source has no such field, so it is never set
latestUnreachedBlocks(fn) ==
    IF "latestUnreachedBlocks" \in DOMAIN fn THEN fn.latestUnreachedBlocks ELSE Nil

----------------------------------------------------------------------------
(* The properties of Merge. *)

\* C1: in a merge of two or more reports every function of the output has
\* the greatest coveragePercent of all the entries with its (fileName,
\* functionName) in any input report.
MergeMaxCoverage ==
    MultiReport =>
        \A p \in Positions(Out) :
            \E e \in BestEntries(KeyAt(Out, p)) :
                FuncAt(Out, p).coveragePercent = EntryFunc(e).coveragePercent

\* a merged function whose coverage comes from a report that is not the base
MaxCoverageFromOlder ==
    /\ MultiReport
    /\ \E p \in Positions(Out) :
          /\ Winner(KeyAt(Out, p))[1] # Newest
          /\ \E e \in EntriesFor(KeyAt(Out, p)) :
                PercentGreater(FuncAt(Out, p).coveragePercent,
                               EntryFunc(e).coveragePercent)

\* C2: in a merge of two or more reports, when the winning entry of a
\* function has totalStatements = 0, the merged function has the base
\* entry's totalStatements and line, and coveredStatements =
\* round(totalStatements * winningPercent / 100).
MergeBackfill ==
    MultiReport =>
        \A p \in Positions(Out) \cap Positions(before[Newest]) :
            LET w == EntryFunc(Winner(KeyAt(Out, p)))
                b == FuncAt(before[Newest], p)
            IN  w.totalStatements = 0 =>
                  /\ FuncAt(Out, p).totalStatements = b.totalStatements
                  /\ FuncAt(Out, p).line = b.line
                  /\ FuncAt(Out, p).coveredStatements =
                        RoundedCovered(b.totalStatements, w.coveragePercent)

\* C3: in a merge of two or more reports the output has exactly the
\* packages, files and functions of the input with the latest generatedAt,
\* in its order, so that no function of the output is missing from it.
MergeDeletionLaw ==
    MultiReport =>
        \E b \in DOMAIN before :
            /\ \A r \in DOMAIN before :
                  before[r].generatedAt <= before[b].generatedAt
            /\ Structure(Out) = Structure(before[b])
            /\ \A p \in Positions(Out) :
                  \E q \in Positions(before[b]) :
                      KeyAt(before[b], q) = KeyAt(Out, p)

\* the base is not the first argument, and an older report has a function
\* that the output has not
DeletedFunctionDropped ==
    /\ MultiReport
    /\ Newest # 1
    /\ \E r \in DOMAIN before : \E q \in Positions(before[r]) :
          \A p \in Positions(Out) : KeyAt(Out, p) # KeyAt(before[r], q)

\* C4: in a merge of two or more reports, when the winner of a function
\* is not the base entry and has no unreached blocks, the merged function
\* has latestUnreachedBlocks = the base entry's unreachedBlocks and the
\* winner's unreachedBlocks; when the base entry wins, and in a merge of
\* one report, latestUnreachedBlocks is unset.
MergeLatestUnreachedBlocks ==
    /\ MultiReport =>
          \A p \in Positions(Out) \cap Positions(before[Newest]) :
              LET w == Winner(KeyAt(Out, p)) IN
              /\ (w[1] # Newest /\ EntryFunc(w).unreachedBlocks = <<>>) =>
                    /\ latestUnreachedBlocks(FuncAt(Out, p))
                          = FuncAt(before[Newest], p).unreachedBlocks
                    /\ FuncAt(Out, p).unreachedBlocks = <<>>
              /\ w = <<Newest, p>> => latestUnreachedBlocks(FuncAt(Out, p)) = Nil
    /\ SingleReport =>
          \A p \in Positions(Out) : latestUnreachedBlocks(FuncAt(Out, p)) = Nil

\* C5: after a merge of two or more reports every file's statement counts
\* are the sums over its functions, every package's the sums over its
\* files, the report's the sums over its packages, and every level's
\* coveragePercent is 100 * covered / total of these sums, 0 when total
\* is 0.
MergeRecomputesAggregates ==
    MultiReport => CountsAddUp(Out) /\ PercentsDerived(Out)

\* the base's stored counts do not add up, and the output has statements
RecomputedFromStaleBase ==
    /\ MultiReport
    /\ ~CountsAddUp(before[Newest])
    /\ Out.total.totalStatements > 0
    /\ Len(Out.packages) > 1

\* C6: the report returned for a one-element list has statement counts that
\* add up at every level, also when those of the input do not.
MergeSingleCountsAddUp ==
    SingleReport => CountsAddUp(Out)

\* C7: Merge returns an error and no report when the list is empty, and a
\* report and no error for every other list.
MergeErrorIffEmpty ==
    pc = "returned" =>
        /\ Len(reports) = 0 => err /\ result = Nil
        /\ Len(reports) > 0 => ~err /\ result # Nil

\* Merge has returned the error for the empty list
EmptyListRejected == pc = "returned" /\ Len(reports) = 0 /\ err

\* C8: Merge does not modify its inputs, and no write to the returned
\* report (to a function list or to a function's unreachedBlocks) changes
\* an input report.
MergeLeavesInputsAlone ==
    (pc \in {"returned", "written"} /\ ~err) =>
        \A r \in DOMAIN reports : contentsOf(reports[r], heap) = before[r]

\* C9: the merge of a one-element list returns the packages, files and
\* functions of the input, in order and with every function's name, line,
\* totalStatements, coveredStatements, coveragePercent and unreachedBlocks,
\* with mode "merged"; so does the merge of that result.
MergeSingleIdempotent ==
    SingleReport =>
        /\ result.mode = "merged"
        /\ Functions(Out) = Functions(before[1])

\* the result of a merge was merged again, and has unreached blocks
MergedTwice ==
    /\ SingleReport
    /\ calls = 2
    /\ before[1].mode = "merged"
    /\ \E p \in Positions(Out) : FuncAt(Out, p).unreachedBlocks # <<>>

\* C10: in a merge of two or more reports a function whose (fileName,
\* functionName) occurs in the base and in no other input report has in the
\* output the line, totalStatements, coveredStatements, coveragePercent and
\* unreachedBlocks of its own base entry.
MergeKeepsBaseOnlyFunctions ==
    MultiReport =>
        \A p \in Positions(Out) \cap Positions(before[Newest]) :
            (\A e \in EntriesFor(KeyAt(Out, p)) : e[1] = Newest) =>
                FuncAt(Out, p) = FuncAt(before[Newest], p)

\* C11: in a merge of two or more reports the structural base is the input
\* with the latest generatedAt, and every function of the output has the
\* line the base records for it, whichever entry wins the comparison.
MergeLineFromBase ==
    MultiReport =>
        /\ Structure(Out) = Structure(before[Newest])
        /\ \A p \in Positions(Out) :
              FuncAt(Out, p).line = FuncAt(before[Newest], p).line

PercentByFunction(r) ==
    {<<KeyAt(r, p), FuncAt(r, p).coveragePercent>> : p \in Positions(r)}

\* the arguments of the last Merge call have pairwise distinct generatedAt
DistinctGeneratedAt ==
    \A r \in DOMAIN reports : \A q \in DOMAIN reports :
        reports[r].generatedAt = reports[q].generatedAt => r = q

\* C26: for two or more reports with pairwise distinct generatedAt, Merge
\* of the reports in any other order gives the same functions, each with
\* the same coveragePercent.
MergePermutationInvariant ==
    (MultiReport /\ DistinctGeneratedAt) =>
        \A order \in Permutations(DOMAIN reports) :
            PercentByFunction(
                Merge(AsSeq([n \in DOMAIN reports |-> reports[order[n]]]),
                      heap, clock, calls).report)
                = PercentByFunction(result)

\* the older report comes last, lacks functions of the newer one, and has
\* the greater coverage of a function
OlderReportLast ==
    /\ MultiReport /\ DistinctGeneratedAt
    /\ Newest # Len(before)
    /\ Structure(before[Newest]) # Structure(before[Len(before)])
    /\ \E p \in Positions(Out) :
          /\ Winner(KeyAt(Out, p))[1] = Len(before)
          /\ \E e \in EntriesFor(KeyAt(Out, p)) :
                PercentGreater(FuncAt(Out, p).coveragePercent,
                               EntryFunc(e).coveragePercent)

----------------------------------------------------------------------------
(* package analysis: matching the blocks of a coverage profile against the *)
(* function extents of the source.  Here a []UnreachedBlock is given by    *)
(* its elements.                                                           *)

\* cover.ProfileBlock
ProfileBlock(startLine, startCol, endLine, endCol, numStmt, count) ==
    [StartLine |-> startLine, StartCol |-> startCol, EndLine |-> endLine,
     EndCol |-> endCol, NumStmt |-> numStmt, Count |-> count]

\* astmap.FuncExtent
FuncExtent(name, startLine, startCol, endLine, endCol) ==
    [Name |-> name, StartLine |-> startLine, StartCol |-> startCol,
     EndLine |-> endLine, EndCol |-> endCol]

\* analysis.Options
Options(pkgPrefixes, threshold, minStatements) ==
    [PkgPrefixes |-> pkgPrefixes, Threshold |-> threshold,
     MinStatements |-> minStatements]

\* blockOverlapsFunc with the column tests left out
blockOverlapsFuncByLine(block, fn) ==
    IF block.StartLine > fn.EndLine THEN FALSE
    ELSE IF block.EndLine < fn.StartLine THEN FALSE
    ELSE TRUE

\* blockOverlapsFunc without the column test at the function's first line
blockOverlapsFuncFromLine(block, fn) ==
    IF block.StartLine > fn.EndLine THEN FALSE
    ELSE IF block.StartLine = fn.EndLine /\ block.StartCol > fn.EndCol THEN FALSE
    ELSE IF block.EndLine < fn.StartLine THEN FALSE
    ELSE TRUE

blockOverlapsFunc(block, fn) ==
    IF block.StartLine > fn.EndLine THEN FALSE
    ELSE IF block.StartLine = fn.EndLine /\ block.StartCol > fn.EndCol THEN FALSE
    ELSE IF block.EndLine < fn.StartLine THEN FALSE
    ELSE IF block.EndLine = fn.StartLine /\ block.EndCol < fn.StartCol THEN FALSE
    ELSE TRUE

\* the loop of analyzeFile over prof.Blocks[i..] for one function, with
\* the unreached blocks collected in reverse
RECURSIVE tallyBlocksReversed(_, _, _, _)
tallyBlocksReversed(blocks, fn, i, acc) ==
    IF i > Len(blocks) THEN acc
    ELSE tallyBlocksReversed(blocks, fn, i + 1,
            IF ~blockOverlapsFunc(blocks[i], fn) THEN acc
            ELSE [totalStmts   |-> acc.totalStmts + blocks[i].NumStmt,
                  coveredStmts |-> IF blocks[i].Count > 0
                                   THEN acc.coveredStmts + blocks[i].NumStmt
                                   ELSE acc.coveredStmts,
                  unreached    |-> IF blocks[i].Count > 0 THEN acc.unreached
                                   ELSE <<UnreachedBlock(blocks[i].StartLine,
                                             blocks[i].StartCol, blocks[i].EndLine,
                                             blocks[i].EndCol, blocks[i].NumStmt)>>
                                        \o acc.unreached])

\* the loop of analyzeFile over prof.Blocks[i..] for one function
RECURSIVE tallyBlocks(_, _, _, _)
tallyBlocks(blocks, fn, i, acc) ==
    IF i > Len(blocks) THEN acc
    ELSE tallyBlocks(blocks, fn, i + 1,
            IF ~blockOverlapsFunc(blocks[i], fn) THEN acc
            ELSE [totalStmts   |-> acc.totalStmts + blocks[i].NumStmt,
                  coveredStmts |-> IF blocks[i].Count > 0
                                   THEN acc.coveredStmts + blocks[i].NumStmt
                                   ELSE acc.coveredStmts,
                  unreached    |-> IF blocks[i].Count > 0 THEN acc.unreached
                                   ELSE Append(acc.unreached,
                                          UnreachedBlock(blocks[i].StartLine,
                                             blocks[i].StartCol, blocks[i].EndLine,
                                             blocks[i].EndCol, blocks[i].NumStmt))])

\* pct > opts.Threshold, and the same test with >=
aboveOrAtThreshold(pct, o) == ~PercentGreater(o.Threshold, pct)
aboveThreshold(pct, o) == PercentGreater(pct, o.Threshold)

\* a function dropped by a filter still counts towards the file totals;
\* and the same step without the counting
droppedUncounted(acc, t) == acc
dropped(acc, t) ==
    [acc EXCEPT !.fileStmts = @ + t.totalStmts,
                !.fileCovered = @ + t.coveredStmts]

\* the function is appended to funcReports and counted
listed(acc, fn, t, pct) ==
    [fileStmts   |-> acc.fileStmts + t.totalStmts,
     fileCovered |-> acc.fileCovered + t.coveredStmts,
     funcReports |-> Append(acc.funcReports,
                        FuncReport(fn.Name, fn.StartLine, t.totalStmts,
                                   t.coveredStmts, pct, t.unreached))]

\* one round of the loop of analyzeFile over funcs: the function is
\* skipped, dropped by a filter, or listed
analyzeFunc(fn, t, o, acc) ==
    IF t.totalStmts = 0 THEN acc
    ELSE IF aboveThreshold(ComputePercent(t.coveredStmts, t.totalStmts), o)
    THEN dropped(acc, t)
    ELSE IF t.totalStmts - t.coveredStmts < o.MinStatements
    THEN dropped(acc, t)
    ELSE listed(acc, fn, t, ComputePercent(t.coveredStmts, t.totalStmts))

\* the loop of analyzeFile over funcs[i..]
RECURSIVE analyzeFuncs(_, _, _, _, _)
analyzeFuncs(blocks, fns, o, i, acc) ==
    IF i > Len(fns) THEN acc
    ELSE analyzeFuncs(blocks, fns, o, i + 1,
            analyzeFunc(fns[i],
                tallyBlocks(blocks, fns[i], 1,
                    [totalStmts |-> 0, coveredStmts |-> 0, unreached |-> <<>>]),
                o, acc))

\* the FileReport analyzeFile builds, also when no statement was counted
fileReportOf(a) ==
    [fileName  |-> "",
     total     |-> CoverageStats(a.fileStmts, a.fileCovered,
                                 ComputePercent(a.fileCovered, a.fileStmts)),
     functions |-> a.funcReports]

\* analyzeFile without its return of nil
analyzeFileNeverNil(p, fns, o) ==
    fileReportOf(analyzeFuncs(p.Blocks, fns, o, 1,
                    [fileStmts |-> 0, fileCovered |-> 0, funcReports |-> <<>>]))

analyzeFile(p, fns, o) ==
    LET a == analyzeFuncs(p.Blocks, fns, o, 1,
                 [fileStmts |-> 0, fileCovered |-> 0, funcReports |-> <<>>])
    IN  IF a.fileStmts = 0 THEN Nil ELSE fileReportOf(a)

\* the strings of the model in ascending order, as Go compares them
Ascending == <<"a.go", "b.go", "c.go", "p", "p/a.go", "p/b.go", "q", "q/c.go">>
StringLess(a, b) ==
    \E i \in DOMAIN Ascending : \E j \in DOMAIN Ascending :
        Ascending[i] = a /\ Ascending[j] = b /\ i < j

\* filepath.Dir and filepath.Base of a profile's file name
packageFromFile(filename) ==
    IF filename \in {"p/a.go", "p/b.go"} THEN "p" ELSE "q"
baseName(filename) ==
    IF filename = "p/a.go" THEN "a.go"
    ELSE IF filename = "p/b.go" THEN "b.go" ELSE "c.go"

\* strings.HasPrefix on import paths
HasPrefix(str, prefix) == str = prefix \/ prefix = ""

matchesPrefixes(importPath, prefixes) ==
    IF Len(prefixes) = 0 THEN TRUE
    ELSE \E n \in DOMAIN prefixes : HasPrefix(importPath, prefixes[n])

\* the profiles of ps[i..] whose file lies in package pkg, in order
RECURSIVE profilesOf(_, _, _)
profilesOf(ps, pkg, i) ==
    IF i > Len(ps) THEN <<>>
    ELSE IF packageFromFile(ps[i].FileName) = pkg
    THEN <<ps[i]>> \o profilesOf(ps, pkg, i + 1)
    ELSE profilesOf(ps, pkg, i + 1)

\* groupByPackage: import path -> its profiles, in input order
groupByPackage(ps) ==
    [pkg \in {packageFromFile(ps[i].FileName) : i \in DOMAIN ps} |->
        profilesOf(ps, pkg, 1)]

\* resolvePackages: nothing to resolve, the error of a failed `go list`, or
\* the directories it printed
resolvePackages(pkgFiles, golist) ==
    IF DOMAIN pkgFiles = {} THEN [err |-> FALSE, pkgPaths |-> <<>>]
    ELSE IF golist.exit # 0 THEN [err |-> TRUE, pkgPaths |-> <<>>]
    ELSE [err |-> FALSE,
          pkgPaths |-> [ip \in DOMAIN golist.dirs \cap DOMAIN pkgFiles |->
                           golist.dirs[ip]]]

\* sort.Strings(importPaths)
RECURSIVE sortStrings(_)
sortStrings(S) ==
    IF S = {} THEN <<>>
    ELSE LET m == CHOOSE x \in S : \A y \in S \ {x} : StringLess(x, y)
         IN  <<m>> \o sortStrings(S \ {m})

\* analyzePackage without the sort of its profiles
unsortedProfiles(ps) == ps

\* sort.Slice(profiles, FileName ascending): insertion of ps[n] into the
\* sorted ps[1..n-1]
RECURSIVE sortByFileName(_)
sortByFileName(ps) ==
    IF ps = <<>> THEN <<>>
    ELSE LET rest == sortByFileName(SubSeq(ps, 1, Len(ps) - 1))
             last == ps[Len(ps)]
             k    == Cardinality({i \in DOMAIN rest :
                        ~StringLess(last.FileName, rest[i].FileName)})
         IN  SubSeq(rest, 1, k) \o <<last>> \o SubSeq(rest, k + 1, Len(rest))

\* the function bodies of the source file, as astmap.FileFuncs lists them
SourceFuncs ==
    <<FuncExtent("Add", 5, 1, 7, 2), FuncExtent("Sub", 9, 1, 11, 2)>>

\* astmap.FileFuncs(srcPath): the functions of the source, or an error
FileFuncs(srcPath, bad) ==
    IF srcPath \in bad THEN [err |-> TRUE, funcs |-> <<>>]
    ELSE [err |-> FALSE, funcs |-> SourceFuncs]

\* a report is appended: its counts replace the running totals
appendedLast(acc, child) ==
    [stmts    |-> child.total.totalStatements,
     covered  |-> child.total.coveredStatements,
     children |-> Append(acc.children, child)]

\* a file or package report is appended and added to the running totals
appended(acc, child) ==
    [stmts    |-> acc.stmts + child.total.totalStatements,
     covered  |-> acc.covered + child.total.coveredStatements,
     children |-> Append(acc.children, child)]

\* one round of the loop of analyzePackage over profiles: the file is
\* skipped when its source does not parse or it has no file report
analyzeProfile(p, parsed, fr, acc) ==
    IF parsed.err THEN acc
    ELSE IF fr = Nil THEN acc
    ELSE appended(acc, [fr EXCEPT !.fileName = p.FileName])

\* the loop of analyzePackage over profiles[i..]
RECURSIVE analyzeProfiles(_, _, _, _, _, _)
analyzeProfiles(diskDir, ps, o, bad, i, acc) ==
    IF i > Len(ps) THEN acc
    ELSE analyzeProfiles(diskDir, ps, o, bad, i + 1,
            LET parsed == FileFuncs(<<diskDir, baseName(ps[i].FileName)>>, bad)
            IN  analyzeProfile(ps[i], parsed,
                               analyzeFile(ps[i], parsed.funcs, o), acc))

analyzePackage(importPath, diskDir, ps, o, bad) ==
    LET a == analyzeProfiles(diskDir, sortByFileName(ps), o, bad, 1,
                 [stmts |-> 0, covered |-> 0, children |-> <<>>])
    IN  IF Len(a.children) = 0 THEN Nil
        ELSE [importPath |-> importPath,
              total |-> CoverageStats(a.stmts, a.covered,
                                      ComputePercent(a.covered, a.stmts)),
              files |-> a.children]

\* a package report is appended unless it is nil
appendedPackage(acc, pr) == IF pr = Nil THEN acc ELSE appended(acc, pr)

\* the loop of Run over importPaths[i..]
RECURSIVE analyzePackages(_, _, _, _, _, _, _)
analyzePackages(importPaths, pkgFiles, pkgPaths, o, bad, i, acc) ==
    IF i > Len(importPaths) THEN acc
    ELSE analyzePackages(importPaths, pkgFiles, pkgPaths, o, bad, i + 1,
            IF ~matchesPrefixes(importPaths[i], o.PkgPrefixes) THEN acc
            ELSE IF importPaths[i] \notin DOMAIN pkgPaths THEN acc
            ELSE appendedPackage(acc,
                    analyzePackage(importPaths[i], pkgPaths[importPaths[i]],
                                   pkgFiles[importPaths[i]], o, bad)))

\* analysis.Run: the report, or the error of resolvePackages
Run(ps, o, golist, bad) ==
    LET pkgFiles == groupByPackage(ps)
        resolved == resolvePackages(pkgFiles, golist)
        a == analyzePackages(sortStrings(DOMAIN pkgFiles), pkgFiles,
                             resolved.pkgPaths, o, bad, 1,
                             [stmts |-> 0, covered |-> 0, children |-> <<>>])
    IN  IF resolved.err THEN [report |-> Nil, err |-> TRUE]
        ELSE [report |->
                 [version |-> 1, generatedAt |-> 0,
                  mode |-> IF Len(ps) > 0 THEN ps[1].Mode ELSE "set",
                  total |-> CoverageStats(a.stmts, a.covered,
                                          ComputePercent(a.covered, a.stmts)),
                  packages |-> a.children],
              err |-> FALSE]

----------------------------------------------------------------------------
(* blockOverlapsFunc on one block and one function whose corners lie on a  *)
(* grid of MaxLine lines and MaxCol columns.                               *)

MaxLine == 3
MaxCol  == 2

\* (line, column) a comes before b
PosLess(a, b) == a[1] < b[1] \/ (a[1] = b[1] /\ a[2] < b[2])

\* the ranges <<start, end>> of the grid, start not after end
Extents ==
    {x \in ((1..MaxLine) \X (1..MaxCol)) \X ((1..MaxLine) \X (1..MaxCol)) :
        ~PosLess(x[2], x[1])}

OverlapInit ==
    \E b \in Extents : \E f \in Extents :
        /\ profile = [FileName |-> "p/a.go", Mode |-> "set",
                   Blocks |-> <<ProfileBlock(b[1][1], b[1][2], b[2][1], b[2][2], 1, 0)>>]
        /\ funcs = <<FuncExtent("Foo", f[1][1], f[1][2], f[2][1], f[2][2])>>
        /\ overlaps = FALSE
        /\ fileReport = Nil
        /\ opts = Nil
        /\ pc = "start"
        /\ MergeIdle /\ RunIdle /\ GroupIdle /\ OtherIdle

\* blockOverlapsFunc(profile.Blocks[0], funcs[0])
CallBlockOverlapsFunc ==
    /\ pc = "start"
    /\ overlaps' = blockOverlapsFunc(profile.Blocks[1], funcs[1])
    /\ pc' = "returned"
    /\ UNCHANGED <<mergeVars, runVars, groupVars, opts, profile, funcs, fileReport>>
    /\ UNCHANGED otherVars

OverlapNext == CallBlockOverlapsFunc

SpecOverlap == OverlapInit /\ [][OverlapNext]_vars

\* the corners of a block or function
StartOf(x) == <<x.StartLine, x.StartCol>>
EndOf(x)   == <<x.EndLine, x.EndCol>>

\* C12: blockOverlapsFunc(B, F) is true exactly when neither B's start is
\* after F's end nor B's end is before F's start, in the lexicographic
\* order on (line, column); touching at the same line and column overlaps.
OverlapIsLexicographic ==
    pc = "returned" =>
        (overlaps <=> ~(\/ PosLess(EndOf(funcs[1]), StartOf(profile.Blocks[1]))
                        \/ PosLess(EndOf(profile.Blocks[1]), StartOf(funcs[1]))))

\* a block that starts at the very position where the function ends, and
\* one on the boundary line that does not overlap
OverlapAtBoundary ==
    /\ pc = "returned"
    /\ overlaps
    /\ StartOf(profile.Blocks[1]) = EndOf(funcs[1])
    /\ PosLess(StartOf(funcs[1]), EndOf(funcs[1]))

----------------------------------------------------------------------------
(* analyzeFile on a profile of up to MaxBlocks blocks and the functions of *)
(* a source file.                                                          *)

MaxBlocks == 2      \* blocks of the profile
MaxStmt   == 1      \* statements of a block

\* where a block of the profile lies: in Add, in Sub, from the end of Add
\* to the start of Sub, or between the two
BlockPlaces ==
    {<<5, 20, 7, 2>>, <<9, 25, 11, 2>>, <<7, 2, 9, 1>>, <<8, 1, 8, 5>>}

FileBlocks ==
    {ProfileBlock(x[1], x[2], x[3], x[4], n, c) :
        x \in BlockPlaces, n \in 0..MaxStmt, c \in 0..1}

\* the -threshold and -min-statements values
Thresholds == {<<0, 1>>, <<50, 1>>, <<100, 1>>}
MinStatementsValues == 0..MaxBlocks

\* the function lists analyzeFile is given: the first functions of the
\* source file, or Add with a Sub that starts on the line Add ends on
FuncLists ==
    {SubSeq(SourceFuncs, 1, n) : n \in 0..Len(SourceFuncs)}
    \cup {<<SourceFuncs[1], FuncExtent("Sub", 7, 3, 11, 2)>>}

FileInit ==
    \E fns \in FuncLists : \E m \in 0..MaxBlocks :
      \E bs \in [1..m -> FileBlocks] :
        /\ profile = [FileName |-> "p/a.go", Mode |-> "set", Blocks |-> AsSeq(bs)]
        /\ funcs = fns
        /\ overlaps = FALSE
        /\ fileReport = Nil
        /\ opts = Nil
        /\ pc = "start"
        /\ MergeIdle /\ RunIdle /\ GroupIdle /\ OtherIdle

\* fileReport := analyzeFile(prof, funcs, opts)
CallAnalyzeFile ==
    /\ pc = "start"
    /\ \E th \in Thresholds : \E ms \in MinStatementsValues :
          /\ opts' = Options(<<>>, th, ms)
          /\ fileReport' = analyzeFile(profile, funcs, Options(<<>>, th, ms))
    /\ pc' = "returned"
    /\ UNCHANGED <<mergeVars, runVars, groupVars, profile, funcs, overlaps>>
    /\ UNCHANGED otherVars

FileNext == CallAnalyzeFile

SpecFile == FileInit /\ [][FileNext]_vars

\* block b and function f have a position in common
Touches(b, f) ==
    /\ ~PosLess(EndOf(f), StartOf(b))
    /\ ~PosLess(EndOf(b), StartOf(f))

\* the blocks of bs that touch f, in the order of bs
RECURSIVE TouchingBlocks(_, _)
TouchingBlocks(bs, f) ==
    IF bs = <<>> THEN <<>>
    ELSE LET rest == TouchingBlocks(SubSeq(bs, 1, Len(bs) - 1), f)
         IN  IF Touches(bs[Len(bs)], f) THEN Append(rest, bs[Len(bs)]) ELSE rest

RECURSIVE UncoveredOf(_)
UncoveredOf(bs) ==
    IF bs = <<>> THEN <<>>
    ELSE LET rest == UncoveredOf(SubSeq(bs, 1, Len(bs) - 1))
         IN  IF bs[Len(bs)].Count = 0 THEN Append(rest, bs[Len(bs)]) ELSE rest

StmtsOf(bs) == SumSeq([n \in DOMAIN bs |-> bs[n].NumStmt])

TotalOf(bs, f)     == StmtsOf(TouchingBlocks(bs, f))
UnreachedOf(bs, f) == StmtsOf(UncoveredOf(TouchingBlocks(bs, f)))
CoveredOf(bs, f)   == TotalOf(bs, f) - UnreachedOf(bs, f)

\* the function of fns that the listed function record fr reports
ExtentOf(fns, fr) == CHOOSE n \in DOMAIN fns : fns[n].Name = fr.name

\* the function records of a file report, none for nil
ListedIn(fr) == IF fr = Nil THEN <<>> ELSE fr.functions

\* fns[n] is listed in the file report
IsListed(fr, fns, n) ==
    \E k \in DOMAIN ListedIn(fr) : ListedIn(fr)[k].name = fns[n].Name

\* fns[n] passes the filters of options o on the blocks bs
Visible(bs, fns, n, o) ==
    /\ 100 * CoveredOf(bs, fns[n]) * o.Threshold[2]
          <= o.Threshold[1] * TotalOf(bs, fns[n])
    /\ UnreachedOf(bs, fns[n]) >= o.MinStatements

FileReturned == pc = "returned" /\ profile # Nil /\ opts # Nil

\* C13: for every function analyzeFile reports, totalStatements is the sum
\* of NumStmt over the blocks of the profile that overlap it,
\* coveredStatements the sum over those with Count > 0, and unreachedBlocks
\* the overlapping blocks with Count = 0 in the order of the block list.
AnalyzeFileTallies ==
    FileReturned =>
        \A k \in DOMAIN ListedIn(fileReport) :
            LET fr == ListedIn(fileReport)[k]
                f  == funcs[ExtentOf(funcs, fr)]
                un == UncoveredOf(TouchingBlocks(profile.Blocks, f))
            IN  /\ fr.totalStatements = TotalOf(profile.Blocks, f)
                /\ fr.coveredStatements = CoveredOf(profile.Blocks, f)
                /\ fr.unreachedBlocks =
                      [n \in DOMAIN un |->
                          UnreachedBlock(un[n].StartLine, un[n].StartCol,
                                         un[n].EndLine, un[n].EndCol,
                                         un[n].NumStmt)]

\* a reported function with two different unreached blocks
TwoUnreachedBlocks ==
    /\ FileReturned
    /\ \E k \in DOMAIN ListedIn(fileReport) :
          /\ Len(ListedIn(fileReport)[k].unreachedBlocks) = 2
          /\ ListedIn(fileReport)[k].unreachedBlocks[1]
                # ListedIn(fileReport)[k].unreachedBlocks[2]

\* C14: a function with statements is listed exactly when its
\* coveragePercent <= Threshold and its unreached statements >=
\* MinStatements, both boundaries included.
AnalyzeFileFilter ==
    FileReturned =>
        \A n \in DOMAIN funcs :
            TotalOf(profile.Blocks, funcs[n]) # 0 =>
                (IsListed(fileReport, funcs, n)
                    <=> Visible(profile.Blocks, funcs, n, opts))

\* a function listed with coverage equal to the threshold and exactly
\* MinStatements unreached statements, and one not listed
ListedAtBothBoundaries ==
    /\ FileReturned
    /\ opts.MinStatements > 0
    /\ \E k \in DOMAIN ListedIn(fileReport) :
          /\ ListedIn(fileReport)[k].coveragePercent = opts.Threshold
          /\ ListedIn(fileReport)[k].totalStatements
                - ListedIn(fileReport)[k].coveredStatements = opts.MinStatements
    /\ \E n \in DOMAIN funcs :
          /\ TotalOf(profile.Blocks, funcs[n]) # 0
          /\ ~IsListed(fileReport, funcs, n)

\* C15: the file totals analyzeFile returns are the sums over all the
\* functions with statements, listed or dropped by a filter, whatever
\* Threshold and MinStatements are.
AnalyzeFileTotalsCountDropped ==
    (FileReturned /\ fileReport # Nil) =>
        /\ fileReport.total.totalStatements =
              SumSeq([n \in DOMAIN funcs |-> TotalOf(profile.Blocks, funcs[n])])
        /\ fileReport.total.coveredStatements =
              SumSeq([n \in DOMAIN funcs |-> CoveredOf(profile.Blocks, funcs[n])])

\* a file report whose totals include a function it does not list
DroppedFunctionCounted ==
    /\ FileReturned
    /\ fileReport # Nil
    /\ \E n \in DOMAIN funcs :
          /\ TotalOf(profile.Blocks, funcs[n]) # 0
          /\ ~IsListed(fileReport, funcs, n)

\* the range of block b lies inside the range of function f
Inside(b, f) ==
    /\ ~PosLess(StartOf(b), StartOf(f))
    /\ ~PosLess(EndOf(f), EndOf(b))

\* the blocks of bs inside f
RECURSIVE BlocksInside(_, _)
BlocksInside(bs, f) ==
    IF bs = <<>> THEN <<>>
    ELSE LET rest == BlocksInside(SubSeq(bs, 1, Len(bs) - 1), f)
         IN  IF Inside(bs[Len(bs)], f) THEN Append(rest, bs[Len(bs)]) ELSE rest

\* every function ends strictly before the next starts, and every block
\* lies inside a function
DisjointAndInside ==
    /\ \A n \in DOMAIN funcs : \A m \in DOMAIN funcs :
          n < m => PosLess(EndOf(funcs[n]), StartOf(funcs[m]))
    /\ \A i \in DOMAIN profile.Blocks :
          \E n \in DOMAIN funcs : Inside(profile.Blocks[i], funcs[n])

\* C27: when the function ranges are pairwise disjoint and every block
\* lies inside one of them, every function analyzeFile reports has the
\* statements of the blocks inside it and of no other, and the file's
\* totalStatements is the sum of NumStmt over all the blocks (no file
\* report when that sum is 0).
AnalyzeFileCountsEachBlockOnce ==
    (FileReturned /\ DisjointAndInside) =>
        /\ \A k \in DOMAIN ListedIn(fileReport) :
              ListedIn(fileReport)[k].totalStatements =
                  StmtsOf(BlocksInside(profile.Blocks,
                      funcs[ExtentOf(funcs, ListedIn(fileReport)[k])]))
        /\ IF fileReport = Nil THEN StmtsOf(profile.Blocks) = 0
           ELSE fileReport.total.totalStatements = StmtsOf(profile.Blocks)

\* a block with a statement ends where Add ends, in the column before the
\* one Sub starts in, and Sub has a block of its own
BlockAtSharedLine ==
    /\ FileReturned /\ DisjointAndInside
    /\ Len(funcs) = 2
    /\ funcs[2].StartLine = funcs[1].EndLine
    /\ fileReport # Nil
    /\ \E i \in DOMAIN profile.Blocks : \E j \in DOMAIN profile.Blocks :
          /\ profile.Blocks[i].NumStmt > 0 /\ profile.Blocks[j].NumStmt > 0
          /\ EndOf(profile.Blocks[i]) = EndOf(funcs[1])
          /\ Inside(profile.Blocks[j], funcs[2])

\* C16: no function without statements is listed or counted, and
\* analyzeFile returns no file report exactly when no function has
\* statements, so a file report never has zero total statements.
AnalyzeFileSkipsEmpty ==
    FileReturned =>
        /\ \A k \in DOMAIN ListedIn(fileReport) :
              ListedIn(fileReport)[k].totalStatements # 0
        /\ fileReport = Nil <=>
              \A n \in DOMAIN funcs : TotalOf(profile.Blocks, funcs[n]) = 0
        /\ fileReport # Nil => fileReport.total.totalStatements # 0

\* no file report although the profile has a block with statements: no
\* function of the list has any
NoReportForEmptyFunctions ==
    /\ FileReturned
    /\ fileReport = Nil
    /\ funcs # <<>>
    /\ \E n \in DOMAIN profile.Blocks : profile.Blocks[n].NumStmt > 0

----------------------------------------------------------------------------
(* analysis.Run on the profiles of one coverage file, in any order, with   *)
(* the answer of `go list` and the parse of the sources as the environment *)
(* gives them.                                                             *)

RunFiles == {"p/a.go", "p/b.go", "q/c.go"}

\* the block lists of a profile: none, Add covered and Sub not, Add not
RunBlockLists ==
    {<<>>,
     <<ProfileBlock(5, 20, 7, 2, 1, 1), ProfileBlock(9, 25, 11, 2, 1, 0)>>,
     <<ProfileBlock(5, 20, 7, 2, 1, 0)>>}

\* the profiles cover.ParseProfiles returns have distinct file names
ProfileLists ==
    {fs \in UNION {[1..n -> RunFiles] : n \in 0..Cardinality(RunFiles)} :
        \A i \in DOMAIN fs : \A j \in DOMAIN fs : fs[i] = fs[j] => i = j}

\* `go list -json` exits with a status and prints the directories of the
\* import paths it could resolve
GoListAnswers ==
    {[exit |-> e, dirs |-> [ip \in S |-> <<"/src", ip>>]] :
        e \in 0..1, S \in SUBSET {"p", "q"}}

RunOptions ==
    {Options(pre, th, ms) :
        pre \in {<<>>, <<"q">>}, th \in Thresholds, ms \in 0..MaxStmt}

RunInit ==
    \E fs \in ProfileLists : \E bl \in [DOMAIN fs -> RunBlockLists] :
      \E o \in RunOptions : \E g \in GoListAnswers :
        \E bad \in SUBSET {<<<<"/src", "p">>, "b.go">>} :
          /\ profiles = AsSeq([i \in DOMAIN fs |->
                            [FileName |-> fs[i], Mode |-> "count", Blocks |-> bl[i]]])
          /\ opts = o
          /\ goList = g
          /\ unparsable = bad
          /\ runReport = Nil
          /\ runErr = FALSE
          /\ runPrev = Nil
          /\ pc = "start"
          /\ MergeIdle /\ FileIdle /\ GroupIdle /\ OtherIdle

\* rpt, err := analysis.Run(profiles, opts)
CallRun ==
    /\ pc = "start"
    /\ LET r == Run(profiles, opts, goList, unparsable) IN
          /\ runReport' = r.report
          /\ runErr' = r.err
    /\ pc' = "returned"
    /\ UNCHANGED <<mergeVars, fileVars, groupVars, opts,
                   profiles, goList, unparsable, runPrev>>
    /\ UNCHANGED otherVars

\* the same profiles are analysed again in another order
Reorder ==
    /\ pc = "returned"
    /\ runPrev = Nil
    /\ \E perm \in [DOMAIN profiles -> DOMAIN profiles] :
          /\ \A i \in DOMAIN perm : \A j \in DOMAIN perm :
                perm[i] = perm[j] => i = j
          /\ \E i \in DOMAIN perm : perm[i] # i
          /\ profiles' = AsSeq([i \in DOMAIN profiles |-> profiles[perm[i]]])
    /\ runPrev' = [report |-> runReport, err |-> runErr]
    /\ runReport' = Nil
    /\ runErr' = FALSE
    /\ pc' = "start"
    /\ UNCHANGED <<mergeVars, fileVars, groupVars, opts, goList, unparsable>>
    /\ UNCHANGED otherVars

RunNext == CallRun \/ Reorder

SpecRun == RunInit /\ [][RunNext]_vars

\* Run has returned, and returned a report
RunReturned == pc = "returned" /\ goList # Nil
RunOk == RunReturned /\ ~runErr

\* the blocks of the profile of file name
BlocksOfFile(name) ==
    LET i == CHOOSE i \in DOMAIN profiles : profiles[i].FileName = name
    IN  profiles[i].Blocks

\* total and covered of every package are the sums over its files, and of
\* the report the sums over its packages
UpperLevelsAddUp(r) ==
    /\ SumsOf(r, [i \in DOMAIN r.packages |-> r.packages[i].total.totalStatements],
                 [i \in DOMAIN r.packages |-> r.packages[i].total.coveredStatements])
    /\ \A i \in DOMAIN r.packages :
          SumsOf(r.packages[i],
                 [j \in DOMAIN r.packages[i].files |->
                     r.packages[i].files[j].total.totalStatements],
                 [j \in DOMAIN r.packages[i].files |->
                     r.packages[i].files[j].total.coveredStatements])

\* total and covered of every file are the sums over all the functions of
\* its source, listed or not
FilesCountAllFunctions(r) ==
    \A i \in DOMAIN r.packages : \A j \in DOMAIN r.packages[i].files :
        LET file == r.packages[i].files[j]
            bs   == BlocksOfFile(file.fileName)
        IN  SumsOf(file,
                   [n \in DOMAIN SourceFuncs |-> TotalOf(bs, SourceFuncs[n])],
                   [n \in DOMAIN SourceFuncs |-> CoveredOf(bs, SourceFuncs[n])])

\* C17 as stated: in every report of analysis.Run, for any Threshold and
\* MinStatements, the counts of each file are the sums over its listed
\* functions, of each package over its files, of the report over its
\* packages.
RunCountsAddUp ==
    RunOk => CountsAddUp(runReport)

\* C17: in every report of analysis.Run the counts of each package are the
\* sums over its files and those of the report the sums over its packages;
\* the counts of each file are the sums over all the functions of the file
\* with statements, listed or dropped by a filter, and so the sums over the
\* listed functions when Threshold is 100 and MinStatements is 0.
RunTotalsCountDropped ==
    RunOk =>
        /\ UpperLevelsAddUp(runReport)
        /\ FilesCountAllFunctions(runReport)
        /\ (opts.Threshold = <<100, 1>> /\ opts.MinStatements = 0)
              => CountsAddUp(runReport)

\* a report of two packages in which a file counts a function it does not
\* list
RunDroppedFunctionCounted ==
    /\ RunOk
    /\ Len(runReport.packages) = 2
    /\ Len(runReport.packages[1].files) = 2
    /\ ~CountsAddUp(runReport)

\* C18: in every report of analysis.Run the packages are in ascending order
\* of import path and the files of a package in ascending order of file
\* name, and Run returns the same for the same profiles in another order.
RunOutputSorted ==
    /\ RunOk =>
          /\ \A i \in DOMAIN runReport.packages : \A j \in DOMAIN runReport.packages :
                i < j => StringLess(runReport.packages[i].importPath,
                                    runReport.packages[j].importPath)
          /\ \A i \in DOMAIN runReport.packages :
                LET files == runReport.packages[i].files IN
                \A j \in DOMAIN files : \A k \in DOMAIN files :
                    j < k => StringLess(files[j].fileName, files[k].fileName)
    /\ (RunReturned /\ runPrev # Nil) =>
          runPrev = [report |-> runReport, err |-> runErr]

\* profiles given in descending order, analysed in two orders, with two
\* packages and two files of one package in the report
RunReordered ==
    /\ RunOk
    /\ runPrev # Nil
    /\ Len(runReport.packages) = 2
    /\ Len(runReport.packages[1].files) = 2
    /\ profiles[1].FileName = "q/c.go"
    /\ profiles[2].FileName = "p/b.go"

\* C19: Run does not fail because `go list` cannot resolve the import path
\* of a package: the package is left out and the others that `go list`
\* resolved are analysed and returned without error.
RunSkipsUnresolvable ==
    (RunReturned /\ \E i \in DOMAIN profiles :
            packageFromFile(profiles[i].FileName) \notin DOMAIN goList.dirs) =>
        /\ ~runErr
        /\ \A i \in DOMAIN runReport.packages :
              runReport.packages[i].importPath \in DOMAIN goList.dirs
        /\ \A i \in DOMAIN profiles :
              LET name == profiles[i].FileName
                  pkg  == packageFromFile(name)
              IN  (/\ pkg \in DOMAIN goList.dirs
                   /\ matchesPrefixes(pkg, opts.PkgPrefixes)
                   /\ <<goList.dirs[pkg], baseName(name)>> \notin unparsable
                   /\ \E n \in DOMAIN SourceFuncs :
                         TotalOf(profiles[i].Blocks, SourceFuncs[n]) # 0)
                  => \E p \in DOMAIN runReport.packages :
                        \E f \in DOMAIN runReport.packages[p].files :
                            runReport.packages[p].files[f].fileName = name

----------------------------------------------------------------------------
(* package covparse: grouping coverage directories by build.  A file name  *)
(* is a prefix and the rest, a string the sequence of its characters.      *)

MaxDirs == 2        \* directories found under the root

\* the characters of hash suffixes and of the separator, in ascending order
Chars == <<",", "a", "b">>
CharLess(c, d) ==
    \E i \in DOMAIN Chars : \E j \in DOMAIN Chars :
        Chars[i] = c /\ Chars[j] = d /\ i < j

\* string s < string t
StrLess(s, t) ==
    \E n \in 1..(Len(t)) :
        /\ \A m \in 1..(n - 1) : m <= Len(s) /\ s[m] = t[m]
        /\ n > Len(s) \/ (n <= Len(s) /\ CharLess(s[n], t[n]))

\* strings.CutPrefix(e.Name(), "covmeta.")
CutPrefix(name, prefix) ==
    IF name.prefix = prefix THEN [rest |-> name.rest, ok |-> TRUE]
    ELSE [rest |-> name, ok |-> FALSE]

\* the loop over the entries of a directory: the hashes in entry order
RECURSIVE hashesOf(_, _)
hashesOf(entries, i) ==
    IF i > Len(entries) THEN <<>>
    ELSE LET cut == CutPrefix(entries[i], "covmeta.") IN
         IF cut.ok THEN <<cut.rest>> \o hashesOf(entries, i + 1)
         ELSE hashesOf(entries, i + 1)

\* sort.Strings(hashes)
RECURSIVE sortHashes(_)
sortHashes(hs) ==
    IF hs = <<>> THEN <<>>
    ELSE LET rest == sortHashes(SubSeq(hs, 1, Len(hs) - 1))
             last == hs[Len(hs)]
             k    == Cardinality({i \in DOMAIN rest : ~StrLess(last, rest[i])})
         IN  SubSeq(rest, 1, k) \o <<last>> \o SubSeq(rest, k + 1, Len(rest))

\* the strings put one after the other, nothing between them
RECURSIVE JoinNoSeparator(_, _)
JoinNoSeparator(strs, sep) ==
    IF strs = <<>> THEN <<>>
    ELSE JoinNoSeparator(SubSeq(strs, 1, Len(strs) - 1), sep) \o strs[Len(strs)]

\* strings.Join(strs, sep)
RECURSIVE Join(_, _)
Join(strs, sep) ==
    IF strs = <<>> THEN <<>>
    ELSE IF Len(strs) = 1 THEN strs[1]
    ELSE Join(SubSeq(strs, 1, Len(strs) - 1), sep) \o sep \o strs[Len(strs)]

\* the loop of groupByMetaHash over dirs[i..]; readDir gives what
\* os.ReadDir returns for a directory
RECURSIVE groupDirs(_, _, _, _)
groupDirs(ds, readDir, i, acc) ==
    IF i > Len(ds) THEN [groups |-> acc, err |-> FALSE]
    ELSE IF readDir[ds[i]].err THEN [groups |-> Nil, err |-> TRUE]
    ELSE LET key == Join(sortHashes(hashesOf(readDir[ds[i]].entries, 1)), <<",">>)
             old == IF key \in DOMAIN acc THEN acc[key] ELSE <<>>
         IN  groupDirs(ds, readDir, i + 1,
                       [k \in DOMAIN acc \cup {key} |->
                           IF k = key THEN Append(old, ds[i]) ELSE acc[k]])

groupByMetaHash(ds, readDir) == groupDirs(ds, readDir, 1, <<>>)

\* the covmeta hashes a build may write, and the counter file beside them
Hashes == {<<"a">>, <<"b">>, <<"a", "b">>}
CounterFile == [prefix |-> "covcounters.", rest |-> <<"a">>]

\* the elements of a set of strings in some order
RECURSIVE SetToSeq(_)
SetToSeq(S) ==
    IF S = {} THEN <<>>
    ELSE LET x == CHOOSE x \in S : TRUE IN <<x>> \o SetToSeq(S \ {x})

\* os.ReadDir of a directory holding the meta files of the hashes hs, with
\* or without a counter file: the entries sorted by name
ReadDir(hs, counters) ==
    LET sorted == sortHashes(SetToSeq(hs)) IN
    [err     |-> FALSE,
     entries |-> (IF counters THEN <<CounterFile>> ELSE <<>>)
                 \o AsSeq([n \in DOMAIN sorted |->
                              [prefix |-> "covmeta.", rest |-> sorted[n]]])]

\* what os.ReadDir may give for one directory
DirContents ==
    {ReadDir(hs, c) : hs \in SUBSET Hashes, c \in BOOLEAN}
    \cup {[err |-> TRUE, entries |-> <<>>]}

GroupInit ==
    \E n \in 0..MaxDirs : \E content \in [1..n -> DirContents] :
        /\ dirs = AsSeq([i \in 1..n |-> <<"pod", i>>])
        /\ metaHashes = [d \in {<<"pod", i>> : i \in 1..n} |-> content[d[2]]]
        /\ groups = Nil
        /\ pc = "start"
        /\ MergeIdle /\ FileIdle /\ RunIdle /\ opts = Nil /\ OtherIdle

\* hashGroups, err := groupByMetaHash(covDirs)
CallGroupByMetaHash ==
    /\ pc = "start"
    /\ LET g == groupByMetaHash(dirs, metaHashes) IN
          /\ groups' = g.groups
          /\ err' = g.err
    /\ pc' = "returned"
    /\ UNCHANGED <<reports, heap, result, before, calls, clock>>
    /\ UNCHANGED <<fileVars, runVars, opts, dirs, metaHashes>>
    /\ UNCHANGED otherVars

GroupNext == CallGroupByMetaHash

SpecGroup == GroupInit /\ [][GroupNext]_vars

\* groupByMetaHash has returned its groups
Grouped == pc = "returned" /\ dirs # Nil /\ ~err

\* the set of covmeta hash suffixes in directory d
HashSet(d) ==
    {metaHashes[d].entries[n].rest :
        n \in {m \in DOMAIN metaHashes[d].entries :
                  metaHashes[d].entries[m].prefix = "covmeta."}}

\* the places <<key, n>> at which directory d stands in the groups
PlacesOf(d) ==
    {x \in UNION {{<<k, n>> : n \in DOMAIN groups[k]} : k \in DOMAIN groups} :
        groups[x[1]][x[2]] = d}

\* C20: groupByMetaHash puts two directories in the same group exactly when
\* they hold the same set of covmeta hash suffixes, and every directory is
\* in exactly one group.
GroupsAreHashSets ==
    Grouped =>
        /\ \A i \in DOMAIN dirs : Cardinality(PlacesOf(dirs[i])) = 1
        /\ \A i \in DOMAIN dirs : \A j \in DOMAIN dirs :
              (\E x \in PlacesOf(dirs[i]) : \E y \in PlacesOf(dirs[j]) : x[1] = y[1])
                  <=> HashSet(dirs[i]) = HashSet(dirs[j])

\* a directory with the hashes a and b and one with the hash ab, in two
\* groups
SplitHashKeptApart ==
    /\ Grouped
    /\ Len(dirs) >= 2
    /\ HashSet(dirs[1]) = {<<"a">>, <<"b">>}
    /\ HashSet(dirs[2]) = {<<"a", "b">>}
    /\ Cardinality(DOMAIN groups) = 2

----------------------------------------------------------------------------
(* package covparse: the build groups in order of their newest counter     *)
(* file, and `analyze -r`, which merges one report per build group.        *)

\* what DirEntry.Info gives for the counter file of a directory
FileInfo(exists, statErr, modTime) ==
    [exists |-> exists, err |-> statErr, modTime |-> modTime]

BuildGroup(ds, newest) == [Dirs |-> ds, NewestTimestamp |-> newest]

\* one directory of newestCounterTime's loop: the newest time seen after it
counterStep(read, info, newest) ==
    IF read.err THEN [time |-> 0, err |-> TRUE]
    ELSE IF ~\E n \in DOMAIN read.entries : read.entries[n].prefix = "covcounters."
    THEN [time |-> newest, err |-> FALSE]
    ELSE IF info.err THEN [time |-> 0, err |-> TRUE]
    ELSE [time |-> IF After(info.modTime, newest) THEN info.modTime ELSE newest,
          err  |-> FALSE]

\* the loop of newestCounterTime over ds[i..]
RECURSIVE newestOver(_, _, _, _, _)
newestOver(ds, readDir, infos, i, newest) ==
    IF i > Len(ds) THEN [time |-> newest, err |-> FALSE]
    ELSE LET step == counterStep(readDir[ds[i]], infos[ds[i]], newest) IN
         IF step.err THEN step
         ELSE newestOver(ds, readDir, infos, i + 1, step.time)

\* newestCounterTime(dirs); the zero time.Time is 0
newestCounterTime(ds, readDir, infos) == newestOver(ds, readDir, infos, 1, 0)

\* a plausible slip: the comparison of sort.Slice the other way round
lessNewestLast(g, h) == After(g.NewestTimestamp, h.NewestTimestamp)

\* the less function given to sort.Slice
lessNewest(g, h) == Before(g.NewestTimestamp, h.NewestTimestamp)

\* sort.Slice(groups, less)
RECURSIVE sortSlice(_)
sortSlice(gs) ==
    IF gs = <<>> THEN <<>>
    ELSE LET rest == sortSlice(SubSeq(gs, 1, Len(gs) - 1))
             last == gs[Len(gs)]
             k    == Cardinality({i \in DOMAIN rest : ~lessNewest(last, rest[i])})
         IN  SubSeq(rest, 1, k) \o <<last>> \o SubSeq(rest, k + 1, Len(rest))

\* the orders in which a range loop may visit the keys of a map
MapOrders(keys) ==
    {f \in [1..Cardinality(keys) -> keys] :
        \A i \in DOMAIN f : \A j \in DOMAIN f : f[i] = f[j] => i = j}

\* the returns ParseDirRecursiveGrouped may make for the directories ds
ParseDirRecursiveGrouped(ds, readDir, infos) ==
    LET failed == {[groups |-> Nil, err |-> TRUE]}
        g == groupByMetaHash(ds, readDir)
    IN  IF Len(ds) = 0 THEN failed
        ELSE IF g.err THEN failed
        ELSE IF \E k \in DOMAIN g.groups :
                    newestCounterTime(g.groups[k], readDir, infos).err
        THEN failed
        ELSE {[groups |-> sortSlice(AsSeq([n \in DOMAIN order |->
                              BuildGroup(g.groups[order[n]],
                                  newestCounterTime(g.groups[order[n]],
                                                    readDir, infos).time)])),
               err |-> FALSE] : order \in MapOrders(DOMAIN g.groups)}

\* modification times of counter files, and readings of the clock
FileTimes == 1..3
ClockReadings == 1..4

\* the counter file of a directory: none, one whose Info fails, or one with
\* a modification time
FileInfos ==
    {FileInfo(FALSE, FALSE, 0), FileInfo(TRUE, TRUE, 0)}
    \cup {FileInfo(TRUE, FALSE, t) : t \in FileTimes}

\* the directories findCoverageDirs may find: each holds a meta file or a
\* counter file; the last one cannot be read
CoverageDirs ==
    {[read |-> ReadDir(hs, info.exists), info |-> info] :
        hs \in {{<<"a">>}, {<<"b">>}, {<<"a", "b">>}}, info \in FileInfos}
    \cup {[read |-> ReadDir({}, TRUE), info |-> info] :
            info \in {i \in FileInfos : i.exists}}
    \cup {[read |-> [err |-> TRUE, entries |-> <<>>],
           info |-> FileInfo(FALSE, FALSE, 0)]}

\* the build whose coverage a group holds: the build with the meta hash a
\* has every function of the code base, the others lack some
buildShape(g, readDir) ==
    IF hashesOf(readDir[g.Dirs[1]].entries, 1) = <<(<<"a">>)>>
    THEN "full" ELSE "partial"

\* the report `analyze -r` makes for the n-th of the groups gs at the clock
\* reading now: analysis.Run's for the last group, stamped now, and
\* reportFromFuncCoverage's for the others, stamped with the group's time
groupContents(gs, n, readDir, cov, now) ==
    IF n = Len(gs)
    THEN inputContents([kind |-> "set", shape |-> buildShape(gs[n], readDir),
                        cov |-> cov, at |-> now])
    ELSE inputContents([kind |-> "covdata-func",
                        shape |-> buildShape(gs[n], readDir),
                        cov |-> 1, at |-> gs[n].NewestTimestamp])

BuildInit ==
    \E n \in 0..MaxDirs : \E content \in [1..n -> CoverageDirs] :
    \E now \in ClockReadings :
        /\ dirs = AsSeq([i \in 1..n |-> <<"pod", i>>])
        /\ metaHashes = [d \in {<<"pod", i>> : i \in 1..n} |-> content[d[2]].read]
        /\ modTimes = [d \in {<<"pod", i>> : i \in 1..n} |-> content[d[2]].info]
        /\ groups = Nil
        /\ buildGroups = Nil
        /\ reports = Nil /\ heap = Nil /\ result = Nil /\ err = FALSE
        /\ before = Nil /\ calls = 0
        /\ clock = now
        /\ pc = "start"
        /\ FileIdle /\ RunIdle /\ FlushIdle /\ opts = Nil

\* groups, err := covparse.ParseDirRecursiveGrouped(*coverDir)
CallParseDirRecursiveGrouped ==
    /\ pc = "start"
    /\ \E out \in ParseDirRecursiveGrouped(dirs, metaHashes, modTimes) :
          /\ buildGroups' = out.groups
          /\ err' = out.err
    /\ pc' = "grouped"
    /\ UNCHANGED <<reports, heap, result, before, calls, clock>>
    /\ UNCHANGED <<fileVars, runVars, groupVars, flushVars, opts, modTimes>>

\* the profile of a group cannot be read or analysed: runAnalyze returns
\* the error
AnalyzeFails ==
    /\ pc = "grouped" /\ ~err
    /\ err' = TRUE
    /\ pc' = "returned"
    /\ UNCHANGED <<reports, heap, result, before, calls, clock>>
    /\ UNCHANGED <<fileVars, runVars, groupVars, otherVars, opts>>

\* the recursive branch of runAnalyze after the groups are known: one
\* group is analysed directly, several are merged
AnalyzeGroups ==
    /\ pc = "grouped" /\ ~err
    /\ \E cov \in 0..MaxCov :
        LET n  == Len(buildGroups)
            cs == AsSeq([r \in 1..n |->
                      groupContents(buildGroups, r, metaHashes, cov, clock)])
            rs == AsSeq([r \in 1..n |-> inputReport(r, cs[r])])
            m  == Merge(rs, inputHeap(cs, n), clock + 1, 1)
        IN  IF n = 1
            THEN /\ reports' = <<>>
                 /\ before' = <<>>
                 /\ heap' = inputHeap(cs, n)
                 /\ result' = [rs[1] EXCEPT !.generatedAt = clock + 1]
                 /\ calls' = 0
            ELSE /\ reports' = rs
                 /\ before' = cs
                 /\ heap' = m.alloc @@ inputHeap(cs, n)
                 /\ result' = [m.report EXCEPT !.generatedAt = clock + 2]
                 /\ calls' = 1
    /\ clock' = clock + 3
    /\ err' = FALSE
    /\ pc' = "returned"
    /\ UNCHANGED <<fileVars, runVars, groupVars, otherVars, opts>>

BuildNext ==
    \/ CallParseDirRecursiveGrouped
    \/ AnalyzeFails
    \/ AnalyzeGroups

SpecBuild == BuildInit /\ [][BuildNext]_vars

\* ParseDirRecursiveGrouped has returned its groups
GroupsReturned == pc = "grouped" /\ ~err

\* C21: ParseDirRecursiveGrouped returns the build groups in non-decreasing
\* order of NewestTimestamp, the newest build last.
GroupsOldestFirst ==
    GroupsReturned =>
        \A i \in DOMAIN buildGroups : \A j \in DOMAIN buildGroups :
            i < j => buildGroups[i].NewestTimestamp <= buildGroups[j].NewestTimestamp

\* two groups were returned, the directory found first being of the newer
\* one
NewerBuildFoundFirst ==
    /\ GroupsReturned
    /\ Len(buildGroups) = 2
    /\ buildGroups[2].Dirs[1] = dirs[1]
    /\ buildGroups[1].NewestTimestamp < buildGroups[2].NewestTimestamp

\* C22: with more than one build group, `analyze -r` merges on the newest
\* group's report: the merged report has that report's packages, files and
\* functions, whatever the counter files' times and the clock's reading.
AnalyzeMergesOnNewestGroup ==
    (MultiReport /\ buildGroups # Nil) =>
        /\ Newest = Len(before)
        /\ Structure(Out) = Structure(before[Len(before)])

----------------------------------------------------------------------------
(* package flush: the SDK a service calls to flush its coverage counters.  *)
(* A section of code that holds the mutex mu is one step.  A flushState is *)
(* known by its index in `states`, a channel of struct{} by the number of  *)
(* times it has been closed, and the signal channel of a HandleSignal call *)
(* by the goroutine that receives from it.                                 *)

MaxApiCalls == 3    \* calls of Enable, Stop, Flush and HandleSignal
MaxCount    == 2    \* statements the program counts

nonFlushVars == <<mergeVars, fileVars, runVars, groupVars, buildVars, opts, pc>>

Callers == {<<"caller", 1>>, <<"caller", 2>>}

\* &flushState{cfg: cfg, stopCh: make(chan struct{}), doneCh: make(...)},
\* and doneCh closed at once when no interval is configured
flushState(interval, clear) ==
    [interval |-> interval, clear |-> clear,
     stopCh |-> 0, doneCh |-> IF interval THEN 0 ELSE 1, sigCh |-> Nil]

\* a caller, or a goroutine: what it runs, where it is, the flushState it
\* holds, the counters doFlush wrote, and for a signal goroutine its channel
Thread(kind, op, at, s) ==
    [kind |-> kind, op |-> op, pc |-> at, s |-> s,
     snap |-> [value |-> 0, upTo |-> 0],
     pending |-> FALSE, notified |-> kind = "signal", ret |-> "none"]

IdleCaller == Thread("caller", "idle", "idle", 0)

\* what has happened so far
StartLog ==
    [calls |-> 0, made |-> {}, stopped |-> {}, finals |-> <<>>, lateFlush |-> FALSE,
     panic |-> FALSE, lost |-> FALSE, counted |-> 0, storedUpTo |-> 0]

\* a plausible slip: Enable does not ask whether the binary is instrumented
coverageAssumed == TRUE

\* coverageAvailable()
coverageAvailable == instrumented

\* the next call of the package's API is made
called(l, name) == [l EXCEPT !.calls = @ + 1, !.made = @ \cup {name}]

\* a trigger other than Stop starts a flush on flushState s: it is late
\* when the Stop of s has returned and Enable has made no state since
triggered(l, s) ==
    [l EXCEPT !.lateFlush = @ \/ (s \in l.stopped /\ s = Len(states))]

\* flush.Enable(cfg)
CallEnable ==
    \E c \in Callers : \E interval \in BOOLEAN : \E clear \in BOOLEAN :
        /\ threads[c].op = "idle" /\ log.calls < MaxApiCalls
        /\ coverageAvailable /\ ~enabled
        /\ states' = Append(states, flushState(interval, clear))
        /\ state' = Len(states) + 1
        /\ enabled' = TRUE
        /\ threads' =
              IF interval
              THEN (<<"periodic", Len(states) + 1>> :>
                        Thread("periodic", "periodicFlush", "select",
                               Len(states) + 1)) @@ threads
              ELSE threads
        /\ log' = [called(log, "Enable") EXCEPT !.finals = Append(@, 0)]
        /\ UNCHANGED nonFlushVars
        /\ UNCHANGED <<instrumented, covCounters, storage>>

\* flush.Enable(cfg) without instrumentation, or when already enabled
CallEnableNoOp ==
    \E c \in Callers :
        /\ threads[c].op = "idle" /\ log.calls < MaxApiCalls
        /\ ~coverageAvailable \/ enabled
        /\ log' = called(log, "Enable")
        /\ UNCHANGED nonFlushVars
        /\ UNCHANGED <<instrumented, enabled, state, states, threads,
                       covCounters, storage>>

\* flush.Stop(), up to mu.Unlock()
CallStop ==
    \E c \in Callers :
        /\ threads[c].op = "idle" /\ log.calls < MaxApiCalls
        /\ log' = called(log, "Stop")
        /\ IF ~enabled \/ state = 0
           THEN UNCHANGED <<enabled, state, threads>>
           ELSE /\ enabled' = FALSE
                /\ state' = 0
                /\ threads' = [threads EXCEPT ![c] =
                                  Thread("caller", "Stop", "close", state)]
        /\ UNCHANGED nonFlushVars
        /\ UNCHANGED <<instrumented, states, covCounters, storage>>

\* close(s.stopCh): closing a closed channel panics
StopCloseBy(c) ==
    /\ c \in DOMAIN threads
    /\ threads[c].pc = "close"
    /\ states' = [states EXCEPT ![threads[c].s].stopCh = @ + 1]
    /\ log' = [log EXCEPT !.panic = @ \/ states[threads[c].s].stopCh > 0]
    /\ threads' = [threads EXCEPT ![c].pc = "wait"]
    /\ UNCHANGED nonFlushVars
    /\ UNCHANGED <<instrumented, enabled, state, covCounters, storage>>

StopClose == \E c \in DOMAIN threads : StopCloseBy(c)

\* a plausible slip: Stop goes on without waiting for doneCh
StopNoWaitBy(c) ==
    /\ c \in DOMAIN threads
    /\ threads[c].pc = "wait"
    /\ threads' = [threads EXCEPT ![c].pc = "sigstop"]
    /\ UNCHANGED nonFlushVars
    /\ UNCHANGED <<instrumented, enabled, state, states, covCounters,
                   storage, log>>

\* <-s.doneCh
StopWaitBy(c) ==
    /\ c \in DOMAIN threads
    /\ threads[c].pc = "wait"
    /\ states[threads[c].s].doneCh > 0
    /\ threads' = [threads EXCEPT ![c].pc = "sigstop"]
    /\ UNCHANGED nonFlushVars
    /\ UNCHANGED <<instrumented, enabled, state, states, covCounters,
                   storage, log>>

StopWait == \E c \in DOMAIN threads : StopWaitBy(c)

\* if s.sigCh != nil { signal.Stop(s.sigCh) }, and the call of doFlush
StopSignalsBy(c) ==
    /\ c \in DOMAIN threads
    /\ threads[c].pc = "sigstop"
    /\ LET ch == states[threads[c].s].sigCh IN
          threads' = [t \in DOMAIN threads |->
              IF t = c THEN [threads[c] EXCEPT !.pc = "doFlush"]
              ELSE IF t = ch THEN [threads[t] EXCEPT !.notified = FALSE]
              ELSE threads[t]]
    /\ log' = [log EXCEPT !.finals[threads[c].s] = @ + 1]
    /\ UNCHANGED nonFlushVars
    /\ UNCHANGED <<instrumented, enabled, state, states, covCounters,
                   storage>>

StopSignals == \E c \in DOMAIN threads : StopSignalsBy(c)

\* flush.Flush(), up to mu.Unlock() and the call of doFlush
CallFlush ==
    \E c \in Callers :
        /\ threads[c].op = "idle" /\ log.calls < MaxApiCalls
        /\ IF ~enabled \/ state = 0
           THEN /\ threads' = [threads EXCEPT ![c].ret = "nil"]
                /\ log' = called(log, "Flush")
           ELSE /\ threads' = [threads EXCEPT ![c] =
                                  Thread("caller", "Flush", "doFlush", state)]
                /\ log' = triggered(called(log, "Flush"), state)
        /\ UNCHANGED nonFlushVars
        /\ UNCHANGED <<instrumented, enabled, state, states, covCounters,
                       storage>>

\* flush.HandleSignal(sigs...), up to mu.Unlock()
CallHandleSignal ==
    \E c \in Callers :
        /\ threads[c].op = "idle" /\ log.calls < MaxApiCalls
        /\ log' = called(log, "HandleSignal")
        /\ IF ~enabled \/ state = 0
           THEN UNCHANGED threads
           ELSE threads' = [threads EXCEPT ![c] =
                               Thread("caller", "HandleSignal", "register", state)]
        /\ UNCHANGED nonFlushVars
        /\ UNCHANGED <<instrumented, enabled, state, states, covCounters,
                       storage>>

\* ch := make(chan os.Signal, 1); signal.Notify(ch, sigs...); s.sigCh = ch;
\* go func() { ... }()
Register ==
    \E c \in Callers :
        /\ threads[c].pc = "register"
        /\ LET ch == <<"signal", Cardinality({t \in DOMAIN threads :
                                                threads[t].kind = "signal"}) + 1>>
           IN  /\ threads' = (ch :> Thread("signal", "func", "select", threads[c].s))
                                @@ [threads EXCEPT ![c] = IdleCaller]
               /\ states' = [states EXCEPT ![threads[c].s].sigCh = ch]
        /\ UNCHANGED nonFlushVars
        /\ UNCHANGED <<instrumented, enabled, state, covCounters, storage, log>>

\* the operating system delivers a signal: signal.Notify's channels get it
\* unless their buffer is full
DeliverSignal ==
    /\ \E t \in DOMAIN threads : threads[t].notified /\ ~threads[t].pending
    /\ threads' = [t \in DOMAIN threads |->
                      IF threads[t].notified
                      THEN [threads[t] EXCEPT !.pending = TRUE] ELSE threads[t]]
    /\ UNCHANGED nonFlushVars
    /\ UNCHANGED <<instrumented, enabled, state, states, covCounters,
                   storage, log>>

\* case <-ticker.C: _ = doFlush(s.cfg)
Tick ==
    \E g \in DOMAIN threads :
        /\ threads[g].kind = "periodic" /\ threads[g].pc = "select"
        /\ threads' = [threads EXCEPT ![g].pc = "doFlush"]
        /\ log' = triggered(log, threads[g].s)
        /\ UNCHANGED nonFlushVars
        /\ UNCHANGED <<instrumented, enabled, state, states, covCounters,
                       storage>>

\* a plausible slip: periodicFlush returns without closing doneCh
PeriodicExitNoCloseBy(g) ==
    /\ g \in DOMAIN threads
    /\ threads[g].kind = "periodic" /\ threads[g].pc = "select"
    /\ states[threads[g].s].stopCh > 0
    /\ threads' = [threads EXCEPT ![g].pc = "exited"]
    /\ UNCHANGED nonFlushVars
    /\ UNCHANGED <<instrumented, enabled, state, states, covCounters,
                   storage, log>>

\* case <-s.stopCh: return, and the deferred close(s.doneCh)
PeriodicExitBy(g) ==
    /\ g \in DOMAIN threads
    /\ threads[g].kind = "periodic" /\ threads[g].pc = "select"
    /\ states[threads[g].s].stopCh > 0
    /\ threads' = [threads EXCEPT ![g].pc = "exited"]
    /\ states' = [states EXCEPT ![threads[g].s].doneCh = @ + 1]
    /\ log' = [log EXCEPT !.panic = @ \/ states[threads[g].s].doneCh > 0]
    /\ UNCHANGED nonFlushVars
    /\ UNCHANGED <<instrumented, enabled, state, covCounters, storage>>

PeriodicExit == \E g \in DOMAIN threads : PeriodicExitBy(g)

\* case <-ch: _ = doFlush(s.cfg)
SignalReceive ==
    \E g \in DOMAIN threads :
        /\ threads[g].kind = "signal" /\ threads[g].pc = "select"
        /\ threads[g].pending
        /\ threads' = [threads EXCEPT ![g].pc = "doFlush", ![g].pending = FALSE]
        /\ log' = triggered(log, threads[g].s)
        /\ UNCHANGED nonFlushVars
        /\ UNCHANGED <<instrumented, enabled, state, states, covCounters,
                       storage>>

\* case <-s.stopCh: return
SignalExit ==
    \E g \in DOMAIN threads :
        /\ threads[g].kind = "signal" /\ threads[g].pc = "select"
        /\ states[threads[g].s].stopCh > 0
        /\ threads' = [threads EXCEPT ![g].pc = "exited"]
        /\ UNCHANGED nonFlushVars
        /\ UNCHANGED <<instrumented, enabled, state, states, covCounters,
                       storage, log>>

\* doFlush has returned ret to thread t: a caller returns, a goroutine
\* goes round its loop
flushed(t, ret) ==
    IF t.kind = "caller"
    THEN [IdleCaller EXCEPT !.ret = IF t.op = "Flush" THEN ret ELSE "none"]
    ELSE [t EXCEPT !.pc = "select"]

\* the Stop that called doFlush returns
returned(l, t) ==
    IF t.op = "Stop" THEN [l EXCEPT !.stopped = @ \cup {t.s}] ELSE l

\* doFlush up to os.ReadDir: the counters are written to a temporary
\* directory, or an error is returned, or no file is found
WriteCoverageBy(t) ==
    /\ t \in DOMAIN threads
    /\ \E outcome \in {"written", "fails", "no files"} :
        /\ threads[t].pc = "doFlush"
        /\ threads' = [threads EXCEPT ![t] =
              IF outcome = "written"
              THEN [@ EXCEPT !.pc = "store",
                             !.snap = [value |-> covCounters,
                                       upTo |-> log.counted]]
              ELSE flushed(@, IF outcome = "fails" THEN "error" ELSE "nil")]
        /\ log' = IF outcome = "written" THEN log ELSE returned(log, threads[t])
        /\ UNCHANGED nonFlushVars
        /\ UNCHANGED <<instrumented, enabled, state, states, covCounters,
                       storage>>

WriteCoverage == \E t \in DOMAIN threads : WriteCoverageBy(t)

\* a plausible slip: doFlush goes on to clear the counters when Store fails
afterStoreAlwaysClear(t, ok, clear) ==
    IF clear THEN [t EXCEPT !.pc = "clear"]
    ELSE flushed(t, IF ok THEN "nil" ELSE "error")

\* thread t after cfg.Storage.Store returned
afterStore(t, ok, clear) ==
    IF ~ok THEN flushed(t, "error")
    ELSE IF clear THEN [t EXCEPT !.pc = "clear"]
    ELSE flushed(t, "nil")

\* cfg.Storage.Store(ctx, files, meta) returns, with or without an error
StoreBy(t) ==
    /\ t \in DOMAIN threads
    /\ \E ok \in BOOLEAN :
        /\ threads[t].pc = "store"
        /\ storage' = IF ok THEN storage \cup {threads[t].snap.value} ELSE storage
        /\ threads' = [threads EXCEPT ![t] =
                          afterStore(@, ok, states[threads[t].s].clear)]
        /\ log' = LET l == IF ok /\ threads[t].snap.upTo > log.storedUpTo
                           THEN [log EXCEPT !.storedUpTo = threads[t].snap.upTo]
                           ELSE log
                  IN  IF threads'[t].pc = "clear" THEN l
                      ELSE returned(l, threads[t])
        /\ UNCHANGED nonFlushVars
        /\ UNCHANGED <<instrumented, enabled, state, states, covCounters>>

Store == \E t \in DOMAIN threads : StoreBy(t)

\* _ = coverage.ClearCounters(), which fails unless the counters are atomic
ClearCountersBy(t) ==
    /\ t \in DOMAIN threads
    /\ \E atomic \in BOOLEAN :
        /\ threads[t].pc = "clear"
        /\ covCounters' = IF atomic THEN 0 ELSE covCounters
        /\ threads' = [threads EXCEPT ![t] = flushed(@, "nil")]
        /\ log' = [returned(log, threads[t]) EXCEPT
                      !.lost = @ \/ (atomic /\ log.counted > log.storedUpTo)]
        /\ UNCHANGED nonFlushVars
        /\ UNCHANGED <<instrumented, enabled, state, states, storage>>

ClearCounters == \E t \in DOMAIN threads : ClearCountersBy(t)

\* the program executes an instrumented statement
Count ==
    /\ instrumented /\ covCounters < MaxCount /\ log.counted < MaxCount
    /\ covCounters' = covCounters + 1
    /\ log' = [log EXCEPT !.counted = @ + 1]
    /\ UNCHANGED nonFlushVars
    /\ UNCHANGED <<instrumented, enabled, state, states, threads, storage>>

NotFlush ==
    /\ MergeIdle /\ FileIdle /\ RunIdle /\ GroupIdle /\ BuildIdle
    /\ opts = Nil /\ pc = "start"

\* a service in which nothing has been called yet
FlushInit ==
    /\ instrumented \in BOOLEAN
    /\ enabled = FALSE
    /\ state = 0
    /\ states = <<>>
    /\ threads = [c \in Callers |-> IdleCaller]
    /\ covCounters = 0
    /\ storage = {}
    /\ log = StartLog
    /\ NotFlush

FlushNext ==
    \/ CallEnable
    \/ CallEnableNoOp
    \/ CallStop
    \/ StopClose
    \/ StopWait
    \/ StopSignals
    \/ CallFlush
    \/ CallHandleSignal
    \/ Register
    \/ DeliverSignal
    \/ Tick
    \/ PeriodicExit
    \/ SignalReceive
    \/ SignalExit
    \/ WriteCoverage
    \/ Store
    \/ ClearCounters


SpecFlush == FlushInit /\ [][FlushNext]_vars

\* Enable makes a flushState only after the Stop of the one before it
MaxStates == (MaxApiCalls + 1) \div 2

\* the goroutines periodicFlush may run in
PeriodicThreads == {<<"periodic", s>> : s \in 1..MaxStates}

\* the next step of a started doFlush in thread t
DoFlushBy(t) == WriteCoverageBy(t) \/ StoreBy(t) \/ ClearCountersBy(t)

\* a Stop that has passed mu.Unlock() goes on, a started doFlush goes on
\* (Storage.Store returns), and a periodicFlush whose select finds stopCh
\* closed time and again takes that case in the end
FlushFairness ==
    /\ \A c \in Callers :
          WF_vars(StopCloseBy(c) \/ StopWaitBy(c) \/ StopSignalsBy(c)
                  \/ DoFlushBy(c))
    /\ \A g \in PeriodicThreads :
          WF_vars(DoFlushBy(g)) /\ SF_vars(PeriodicExitBy(g))

SpecFlushFair == FlushInit /\ [][FlushNext]_vars /\ FlushFairness

\* a service that called Enable with no interval, which now counts
\* statements and calls Flush
DoFlushInit ==
    \E clear \in BOOLEAN :
        /\ instrumented = TRUE
        /\ enabled = TRUE
        /\ state = 1
        /\ states = <<flushState(FALSE, clear)>>
        /\ threads = [c \in Callers |-> IdleCaller]
        /\ covCounters = 0
        /\ storage = {}
        /\ log = [called(StartLog, "Enable") EXCEPT !.finals = <<0>>]
        /\ NotFlush

DoFlushNext ==
    \/ CallFlush
    \/ WriteCoverage
    \/ Store
    \/ ClearCounters
    \/ Count

SpecDoFlush == DoFlushInit /\ [][DoFlushNext]_vars

\* the goroutines that have been started
Goroutines == DOMAIN threads \ Callers

\* C23: in a binary without coverage instrumentation the SDK stays
\* disabled whatever is called: Store is never called, no Flush returns an
\* error, and no goroutine and no signal channel exists.
UninstrumentedIsNoOp ==
    ~instrumented =>
        /\ ~enabled /\ state = 0 /\ states = <<>>
        /\ storage = {}
        /\ \A c \in Callers : threads[c].op = "idle" /\ threads[c].ret # "error"
        /\ Goroutines = {}

\* Enable, HandleSignal and Flush have been called without
\* instrumentation, and Flush returned nil
CalledUninstrumented ==
    /\ ~instrumented
    /\ log.made = {"Enable", "Flush", "HandleSignal"}
    /\ \E c \in Callers : threads[c].ret = "nil"

\* the periodicFlush goroutine of flushState s has exited
PeriodicExited(s) ==
    \A g \in Goroutines :
        (threads[g].kind = "periodic" /\ threads[g].s = s) => threads[g].pc = "exited"

\* C24: a Stop that finds the SDK enabled calls doFlush once, after the
\* periodicFlush goroutine has exited, and when it has returned it has
\* called doFlush exactly once and that goroutine flushes no more.
StopFlushesOnceAfterPeriodic ==
    /\ \A s \in DOMAIN states : log.finals[s] <= 1
    /\ \A c \in Callers :
          (threads[c].op = "Stop" /\ threads[c].pc \in {"doFlush", "store", "clear"})
              => PeriodicExited(threads[c].s)
    /\ \A s \in log.stopped : log.finals[s] = 1 /\ PeriodicExited(s)

\* the Stop of a flushState with an interval has returned, and coverage
\* has been stored
StoppedWhilePeriodicFlush ==
    /\ \E s \in log.stopped : states[s].interval
    /\ storage # {}

\* C29: when the Stop of a flushState has returned and Enable has not been
\* called since, neither the periodic timer nor a signal nor a later
\* Flush call starts a flush.
NoFlushAfterStop == ~log.lateFlush

\* C30 as far as a state shows it: no close of a closed channel, and the
\* stopCh of a flushState is closed once by the Stop that took it
StopClosesOnce ==
    /\ ~log.panic
    /\ \A s \in DOMAIN states : states[s].stopCh <= 1 /\ states[s].doneCh <= 1
    /\ \A s \in log.stopped : states[s].stopCh = 1

\* C30: under every interleaving of Enable, Stop, Flush and HandleSignal
\* calls in which every started doFlush returns, no channel is closed
\* twice, the stopCh of a flushState is closed exactly once, the doneCh of
\* a flushState whose stopCh is closed is closed in the end, with or
\* without an interval, and every Stop returns.
StopAlwaysReturns ==
    /\ []StopClosesOnce
    /\ \A s \in 1..MaxStates :
          (s \in DOMAIN states /\ states[s].stopCh > 0)
              ~> (s \in DOMAIN states /\ states[s].doneCh > 0)
    /\ \A c \in Callers : (threads[c].op = "Stop") ~> (threads[c].op = "idle")

\* a Stop has returned that waited for the periodicFlush goroutine, with a
\* HandleSignal call on the same flushState under way
StoppedDuringHandleSignal ==
    \E s \in log.stopped :
        /\ states[s].interval
        /\ \E c \in Callers : threads[c].pc = "register" /\ threads[c].s = s

\* the counters are reset only by a doFlush whose Config.Clear is set and
\* whose Store returned without error
ClearOnlyAfterStore ==
    [][covCounters' < covCounters =>
          \E t \in DOMAIN threads :
              /\ threads[t].pc = "clear"
              /\ states[threads[t].s].clear
              /\ threads[t].snap.value \in storage]_vars

\* a doFlush that returns an error leaves the counters as they are
ErrorLeavesCounters ==
    [][(\E c \in Callers : threads[c].ret # "error" /\ threads'[c].ret = "error")
          => covCounters' = covCounters]_vars

\* C28: doFlush resets the counters only when Config.Clear is set and
\* Store has returned without error, a doFlush that fails returns an error
\* and leaves the counters as they are, and no statement that was counted
\* is discarded before it has been stored.
NoCoverageLostByClear ==
    /\ ClearOnlyAfterStore
    /\ ErrorLeavesCounters
    /\ []~log.lost

====
